---- MODULE Spec2Model ----
(***************************************************************************)
(* Model of the multi-tenant authentication and rate-limiting core of the  *)
(* adaptive-learning-ecosystem repository:                                 *)
(*   src/shared/auth_middleware.py, src/shared/auth_routes.py,             *)
(*   src/shared/rate_limiting_middleware.py,                               *)
(*   src/shared/advanced_throttling.py.                                    *)
(* Time is counted in whole seconds since the start of the run.  A Redis   *)
(* key that carries an expiry is kept in the store with its expiry time    *)
(* and reads as absent once that time has come.                            *)
(***************************************************************************)
EXTENDS Integers, Sequences, FiniteSets, TLC

VARIABLES
    now,            \* time.time() / datetime.now(), whole seconds
    \* ---- MultiTenantAuthService (auth_middleware.py) and its routes
    redis_client,   \* auth_service.redis_client: TRUE a client, FALSE None
    redis_reachable, \* whether the commands sent through that client arrive
    session_store,  \* Redis keys auth:session:<id>
    institutions,   \* table institutions of the SQL store
    tenant_cache,   \* auth_service.tenant_cache
    issued,         \* access tokens handed out so far
    auth_last,      \* outcome of the last auth operation
    logged_out,     \* session ids whose entry logout has deleted
    first_fail,     \* error message of the first failing login, if any
    auth_rl,        \* Redis keys rate_limit:<tenant>:<user>:<minute>
    http_req,       \* the request in flight between its dependencies and
                    \* its handler, and the requests counted so far
    http_last,      \* the last HTTP response
    \* ---- EnterpriseRateLimiter (rate_limiting_middleware.py)
    rl_redis,       \* rate_limiter.redis_client: TRUE a client, FALSE None
    counters,       \* Redis keys rate_limit:<client>:<window>:...
    memory_store,   \* rate_limiter.memory_store: key -> entry object
    heap,           \* the entry objects {'count', 'timestamp'} of memory_store
    pc,             \* where each concurrent caller stands
    loc,            \* the local variables of each caller
    returned,       \* values _increment_counter has returned so far
    dup_return,     \* whether some value was returned more than once
    completed,      \* calls of _increment_counter that have ended
    limits,         \* SUBSCRIPTION_LIMITS: plan -> RateLimitConfig
    buckets,        \* Redis hashes burst_bucket:<client>
    rl_last,        \* outcome of the last check_rate_limit
    rl_win,         \* per client: its requests in the current minute window
    requests,       \* number of rate-limit checks made so far
    ticks,          \* number of times the clock has advanced
    \* ---- AdvancedThrottlingEngine (advanced_throttling.py)
    th_redis,       \* throttling_engine.redis_client: TRUE a client, FALSE None
    circuit,        \* Redis hashes circuit_breaker:<endpoint>
    metrics,        \* Redis keys request_count and error_count
    endpoint_metrics, \* Redis hashes endpoint_metrics:<endpoint>
    cb_last,        \* outcome of the last circuit breaker operation
    probes,         \* per endpoint: calls let through in this half-open spell
    cb_steps,       \* operations made on the throttling engine so far
    alone           \* the plan table and the stores of the observed client,
                    \* had no other client made a request

routeVars == <<auth_rl, http_req, http_last>>

authVars == <<redis_client, redis_reachable, session_store, institutions, tenant_cache,
              issued, auth_last, logged_out, first_fail, routeVars>>

incrVars == <<rl_redis, counters, memory_store, heap, pc, loc, returned,
              dup_return, completed>>

rateVars == <<limits, buckets, rl_last, rl_win, requests, ticks>>

cbVars == <<th_redis, circuit, metrics, endpoint_metrics, cb_last, probes,
            cb_steps>>

shadowVars == <<alone>>

nonAuthVars == <<incrVars, rateVars, cbVars, shadowVars>>

vars == <<now, authVars, incrVars, rateVars, cbVars, shadowVars>>

nonIncrVars == <<now, authVars, rateVars, cbVars, shadowVars>>

----------------------------------------------------------------------------
(* Bounds of the model                                                     *)

MaxSessions == 2
AuthTick == 1800
AuthMaxNow == 3600
NumCallers == 2
MaxCalls == 2
MaxRequests == 32
MaxTicks == 1

\* requests checked on an endpoint other than the one under test
MaxOther == 1

\* operations on the throttling engine: requests recorded, breaker calls,
\* breaker resets and advances of the clock
MaxRecords == 7

MaxErrors == 1

MaxCBCalls == 3

MaxResets == 1

MaxCBTicks == 2

\* requests that go through the integrated check
MaxThRequests == 3

----------------------------------------------------------------------------
(* Authentication service: data                                            *)

access_token_expire_minutes == 60

jwt_secret == "secret"

Tenants == {"t1"}

NoTenant == "none"

\* rows of table users: id, email, password_hash, role, institution_id
Hash(p) == <<"sha256", p>>

UsersTable ==
    { [id |-> "u1", email |-> "e1", password_hash |-> Hash("pw1"),
       role |-> "institution_admin", institution_id |-> "t1"],
      [id |-> "u3", email |-> "e3", password_hash |-> Hash("pw3"),
       role |-> "student", institution_id |-> NoTenant] }

Emails == {"e1", "e3", "nobody"}
Passwords == {"pw1", "pw3", "wrong"}
NoDomain == "no_domain"
Domains == {NoDomain, "d1", "unknown"}

DomainOf(t) == IF t = "t1" THEN "d1" ELSE "other"

NoConfig == [found |-> FALSE, tenant_id |-> NoTenant, is_active |-> FALSE]

NoRow == [id |-> "none", email |-> "none", password_hash |-> Hash("none"),
          role |-> "none", institution_id |-> NoTenant]

NoToken == [user_id |-> "none", tenant_id |-> NoTenant, role |-> "none",
            session_id |-> 0, exp |-> 0, iat |-> 0, sig |-> "none"]

\* no request in flight, none counted
NoRequest ==
    [stage |-> "idle", email |-> "none", password |-> "none",
     tenant_domain |-> NoDomain, login_window |-> -1, login_n |-> 0,
     decorated |-> 0]

\* no response yet
NoResponse ==
    [route |-> "none", status |-> 0, detail |-> "none", had_token |-> FALSE,
     verified |-> FALSE, counted |-> FALSE, correct |-> FALSE, fresh |-> FALSE,
     login_n |-> 0, user_id |-> "none", token_user |-> "none",
     access_token |-> NoToken, refresh_token |-> FALSE]

----------------------------------------------------------------------------
(* Authentication service: operations                                      *)

\* a Redis key set with SETEX reads as absent from its expiry time on
SessionLive(sessions, sid) ==
    sid \in DOMAIN sessions /\ sessions[sid].expires_at > now

\* get_tenant_config: the cached config when the cache holds one, else the
\* row of the store, which is then cached (no expiry); None when no row
get_tenant_config(cache, tenant_id) ==
    IF tenant_id \in DOMAIN cache
    THEN [config |-> cache[tenant_id], cache |-> cache]
    ELSE IF tenant_id \in DOMAIN institutions
         THEN LET config == [found |-> TRUE, tenant_id |-> tenant_id,
                             is_active |-> institutions[tenant_id].is_active]
              IN  [config |-> config, cache |-> cache @@ (tenant_id :> config)]
         ELSE [config |-> NoConfig, cache |-> cache]

\* get_tenant_by_domain: the id of the active institution with that domain,
\* then get_tenant_config
get_tenant_by_domain(cache, domain) ==
    LET rows == {t \in DOMAIN institutions :
                    DomainOf(t) = domain /\ institutions[t].is_active}
    IN  IF rows # {}
        THEN get_tenant_config(cache, CHOOSE t \in rows : TRUE)
        ELSE [config |-> NoConfig, cache |-> cache]

_verify_password(plain_password, hashed_password) ==
    Hash(plain_password) = hashed_password

\* _get_user_info: the active user with that id in that institution
_get_user_info(user_id, tenant_id) ==
    LET rows == {u \in UsersTable : u.id = user_id /\ u.institution_id = tenant_id}
    IN  IF rows # {} THEN CHOOSE u \in rows : TRUE ELSE NoRow

\* jwt.encode: the claims signed with the secret
jwt_encode(claims, secret) == [claims EXCEPT !.sig = secret]

\* jwt.decode: the exception it raises ("none" when the token is accepted):
\* the signature is checked first, then exp against the clock
jwt_decode(token, secret) ==
    IF token.sig # secret THEN "InvalidTokenError"
    ELSE IF token.exp <= now THEN "ExpiredSignatureError"
    ELSE "none"

\* create_access_token: raises 404 for an unknown user or an invalid or
\* inactive tenant; else issues a token with a fresh session id and, when
\* there is a Redis client, stores the session for the token's lifetime;
\* the store's setex raises when Redis cannot be reached
create_access_token(cache, sessions, user_id, tenant_id) ==
    LET user_info == _get_user_info(user_id, tenant_id)
        got == get_tenant_config(cache, tenant_id)
        session_id == Cardinality(issued) + 1
        claims == [user_id |-> user_id, tenant_id |-> tenant_id,
                   role |-> user_info.role, session_id |-> session_id,
                   exp |-> now + access_token_expire_minutes * 60,
                   iat |-> now, sig |-> "unsigned"]
        session_data == [user_id |-> user_id, tenant_id |-> tenant_id,
                         created_at |-> now, last_activity |-> now,
                         expires_at |-> now + access_token_expire_minutes * 60]
    IN  IF user_info = NoRow
        THEN [raised |-> "User not found", token |-> NoToken,
              cache |-> cache, sessions |-> sessions]
        ELSE IF ~got.config.found \/ ~got.config.is_active
        THEN [raised |-> "Invalid or inactive tenant", token |-> NoToken,
              cache |-> got.cache, sessions |-> sessions]
        ELSE IF redis_client /\ ~redis_reachable
        THEN [raised |-> "ConnectionError", token |-> NoToken,
              cache |-> got.cache, sessions |-> sessions]
        ELSE [raised |-> "none", token |-> jwt_encode(claims, jwt_secret),
              cache |-> got.cache,
              sessions |-> IF redis_client
                           THEN [s \in DOMAIN sessions \cup {session_id} |->
                                   IF s = session_id THEN session_data
                                   ELSE sessions[s]]
                           ELSE sessions]

\* the except clauses of verify_token: what the caller sees for an exception
\* raised inside its try block
verify_token_except(raised) ==
    IF raised.type = "ExpiredSignatureError" THEN "Token expired"
    ELSE IF raised.type = "InvalidTokenError" THEN "Invalid token"
    ELSE "Authentication failed"

\* the try block of verify_token: the exception it raises, if any, and the
\* session store and tenant cache it leaves; redis_client.get raises when
\* Redis cannot be reached
verify_token_try(token) ==
    LET decoded == jwt_decode(token, jwt_secret)
        sid == token.session_id
        touched == IF redis_client
                   THEN [session_store EXCEPT
                           ![sid] = [@ EXCEPT !.last_activity = now,
                                              !.expires_at = now + access_token_expire_minutes * 60]]
                   ELSE session_store
        got == get_tenant_config(tenant_cache, token.tenant_id)
    IN  IF decoded # "none"
        THEN [raised |-> [type |-> decoded, detail |-> decoded],
              sessions |-> session_store, cache |-> tenant_cache]
        ELSE IF redis_client /\ ~redis_reachable
        THEN [raised |-> [type |-> "ConnectionError", detail |-> "ConnectionError"],
              sessions |-> session_store, cache |-> tenant_cache]
        ELSE IF redis_client /\ ~SessionLive(session_store, sid)
        THEN [raised |-> [type |-> "HTTPException", detail |-> "Session expired"],
              sessions |-> session_store, cache |-> tenant_cache]
        ELSE IF ~got.config.found \/ ~got.config.is_active
        THEN [raised |-> [type |-> "HTTPException", detail |-> "Tenant inactive"],
              sessions |-> touched, cache |-> got.cache]
        ELSE [raised |-> [type |-> "none", detail |-> "none"],
              sessions |-> touched, cache |-> got.cache]

\* verify_token: the claims ("ok") or the detail of the 401 it raises
verify_token(token) ==
    LET r == verify_token_try(token)
    IN  [detail |-> IF r.raised.type = "none" THEN "ok"
                    ELSE verify_token_except(r.raised),
         sessions |-> r.sessions, cache |-> r.cache]

\* authenticate_user: the AuthenticationResult (success, error_message,
\* token) and the tenant cache and session store it leaves.  An exception of
\* create_access_token is caught by its except clause.
authenticate_user(email, password, tenant_domain) ==
    LET byDomain == IF tenant_domain # NoDomain
                    THEN get_tenant_by_domain(tenant_cache, tenant_domain)
                    ELSE [config |-> NoConfig, cache |-> tenant_cache]
        rows == {u \in UsersTable :
                    /\ u.email = email
                    /\ byDomain.config.found =>
                           u.institution_id = byDomain.config.tenant_id}
        user_row == IF rows # {} THEN CHOOSE u \in rows : TRUE ELSE NoRow
        own == IF ~byDomain.config.found /\ user_row.institution_id # NoTenant
               THEN get_tenant_config(byDomain.cache, user_row.institution_id)
               ELSE byDomain
        created == create_access_token(own.cache, session_store,
                                       user_row.id, own.config.tenant_id)
        Failure(msg, cache) ==
            [success |-> FALSE, error_message |-> msg, token |-> NoToken,
             cache |-> cache, sessions |-> session_store]
    IN  IF tenant_domain # NoDomain /\ ~byDomain.config.found
        THEN Failure("Invalid tenant domain", byDomain.cache)
        ELSE IF user_row = NoRow
        THEN Failure("Invalid credentials", byDomain.cache)
        ELSE IF ~_verify_password(password, user_row.password_hash)
        THEN Failure("Invalid credentials", byDomain.cache)
        ELSE IF ~own.config.found
        THEN Failure("No valid tenant found", own.cache)
        ELSE IF created.raised # "none"
        THEN Failure("Authentication system error", created.cache)
        ELSE [success |-> TRUE, error_message |-> "none",
              token |-> created.token, cache |-> created.cache,
              sessions |-> created.sessions]

\* login: the detail of the 401 it raises for a failed AuthenticationResult
login_detail(auth_result) ==
    IF auth_result.error_message # "none" THEN auth_result.error_message
    ELSE "Authentication failed"

\* what the last operation did, for the properties below
AuthOutcome(op, detail, token) ==
    [op |-> op, detail |-> detail, session_id |-> token.session_id,
     tenant_id |-> token.tenant_id,
     token_ok |-> jwt_decode(token, jwt_secret) = "none",
     session_ok |-> ~redis_client \/ SessionLive(session_store, token.session_id),
     lookup_ok |-> ~redis_client \/ redis_reachable,
     store_active |-> token.tenant_id \in DOMAIN institutions
                        /\ institutions[token.tenant_id].is_active,
     was_cached |-> token.tenant_id \in DOMAIN tenant_cache]

----------------------------------------------------------------------------
(* Rate limiter: data                                                      *)

RateLimitConfig(rpm, rph, rpd, burst, concurrent, expensive, standard, auth) ==
    [requests_per_minute |-> rpm, requests_per_hour |-> rph,
     requests_per_day |-> rpd, burst_capacity |-> burst,
     concurrent_requests |-> concurrent, expensive_endpoints_rpm |-> expensive,
     standard_endpoints_rpm |-> standard, auth_endpoints_rpm |-> auth]

SUBSCRIPTION_LIMITS ==
    [starter |-> RateLimitConfig(100, 3000, 50000, 20, 10, 10, 60, 20),
     professional |-> RateLimitConfig(500, 15000, 300000, 100, 50, 50, 300, 100),
     enterprise |-> RateLimitConfig(2000, 60000, 1200000, 500, 200, 200, 1200, 400),
     system_admin |-> RateLimitConfig(10000, 300000, 5000000, 2000, 1000, 1000, 6000, 2000)]

\* an endpoint is the sequence of the segments of its path
ENDPOINT_CATEGORIES ==
    << [category |-> "expensive",
        endpoints |-> { <<"api", "ai-tutor", "generate">>,
                        <<"api", "ai-tutor", "analyze">>,
                        <<"api", "analytics", "report">>,
                        <<"api", "analytics", "export">>,
                        <<"api", "recommendations", "generate">>,
                        <<"api", "admin", "backup">>,
                        <<"api", "monitoring", "export">> }],
       [category |-> "auth",
        endpoints |-> { <<"api", "auth", "login">>,
                        <<"api", "auth", "register">>,
                        <<"api", "auth", "refresh">>,
                        <<"api", "auth", "reset-password">>,
                        <<"api", "auth", "verify-email">> }],
       [category |-> "standard",
        endpoints |-> { <<"api", "courses">>, <<"api", "progress">>,
                        <<"api", "content">>, <<"api", "users", "profile">>,
                        <<"api", "admin", "users">>,
                        <<"api", "admin", "tenants">> }] >>

\* endpoint.startswith(ep)
StartsWith(endpoint, ep) ==
    Len(ep) <= Len(endpoint) /\ SubSeq(endpoint, 1, Len(ep)) = ep

\* the clients and the endpoints the model's requests come from
Clients == {"user:a"}

Endpoints == { <<"api", "ai-tutor", "generate">>, <<"api", "auth", "login">> }

\* the subscription plan a client's requests carry
PlanOf(client) == "starter"

NoCheck ==
    [op |-> "init", client |-> "none", endpoint |-> <<>>, category |-> "none",
     allowed |-> TRUE, limit_exceeded |-> "none", minute_count |-> 0,
     hour_count |-> 0, day_count |-> 0, rpm_limit |-> 0, hour_limit |-> 0,
     day_limit |-> 0, burst_capacity |-> 0, burst_tokens |-> 0,
     remaining_minute |-> 0, remaining_hour |-> 0, remaining_day |-> 0,
     raised |-> "none"]

NoWindow == [index |-> -1, n |-> 0, endpoints |-> {}, full |-> FALSE, refilled |-> FALSE]

----------------------------------------------------------------------------
(* The parts of the state a specification does not exercise stay as below  *)

Callers == 1..NumCallers

AuthQuiet ==
    /\ redis_client = FALSE
    /\ redis_reachable = TRUE
    /\ session_store = <<>>
    /\ institutions = [t \in Tenants |-> [is_active |-> TRUE]]
    /\ tenant_cache = <<>>
    /\ issued = {}
    /\ auth_last = [op |-> "init"]
    /\ logged_out = {}
    /\ first_fail = "none"
    /\ auth_rl = <<>>
    /\ http_req = NoRequest
    /\ http_last = NoResponse

\* ThrottleConfig of the engine (AdvancedThrottlingEngine.__init__); a rate
\* is the pair <<numerator, denominator>>
circuit_breaker_threshold == <<15, 100>>

circuit_breaker_duration == 60

\* a Redis key without a time to live
NoExpiry == -1

\* the endpoints whose breakers and metrics the model follows
CBEndpoints == { <<"api", "courses">>, <<"api", "progress">> }

\* the counters of record_request_metrics before any request: the keys
\* request_count and error_count, and the keys tenant_behavior:<tenant>:requests
\* and tenant_behavior:<tenant>:errors of the tenant whose requests are recorded
NoMetrics ==
    [request_count |-> 0, error_count |-> 0, behavior_requests |-> 0,
     behavior_errors |-> 0]

NoCircuitOp ==
    [op |-> "init", endpoint |-> <<>>, before |-> "closed", after |-> "closed",
     blocked |-> FALSE, cooled |-> FALSE, own_exceeds |-> FALSE,
     system_exceeds |-> FALSE, metrics_ok |-> TRUE, stored_now |-> FALSE,
     plan |-> "none", whitelisted |-> FALSE, quotas |-> <<0, 0, 0>>,
     raised |-> "none", untouched |-> TRUE, category |-> "none",
     load_level |-> "none", tenant_multiplier |-> 0, multiplier |-> <<0, 1>>,
     tenant_requests |-> 0, tenant_rate |-> <<0, 1>>,
     sample |-> [cpu_percent |-> 0, memory_percent |-> 0]]

CBQuiet ==
    /\ th_redis = FALSE
    /\ circuit = <<>>
    /\ metrics = NoMetrics
    /\ endpoint_metrics = [e \in CBEndpoints |-> [requests |-> 0, errors |-> 0]]
    /\ cb_last = NoCircuitOp
    /\ probes = [e \in CBEndpoints |-> 0]
    /\ cb_steps = [records |-> 0, errors |-> 0, calls |-> 0, resets |-> 0, ticks |-> 0]

\* before any request: the plan table as defined and empty stores
ShadowQuiet ==
    alone = [limits |-> SUBSCRIPTION_LIMITS,
             st |-> [counters |-> <<>>, memory_store |-> <<>>, heap |-> <<>>,
                     buckets |-> <<>>],
             last |-> NoCheck]

RateQuiet ==
    /\ limits = SUBSCRIPTION_LIMITS
    /\ buckets = <<>>
    /\ rl_last = NoCheck
    /\ rl_win = [c \in Clients |-> NoWindow]
    /\ requests = [e \in Endpoints |-> 0]
    /\ ticks = 0

CallersQuiet ==
    /\ pc = [c \in Callers |-> "idle"]
    /\ loc = [c \in Callers |-> [calls |-> 0]]
    /\ returned = {}
    /\ dup_return = FALSE
    /\ completed = 0

IncrQuiet ==
    /\ rl_redis = FALSE
    /\ counters = <<>>
    /\ memory_store = <<>>
    /\ heap = <<>>
    /\ CallersQuiet

----------------------------------------------------------------------------
(* Authentication service: actions                                         *)

AuthInit ==
    /\ now = 0
    /\ IncrQuiet
    /\ RateQuiet
    /\ CBQuiet
    /\ ShadowQuiet
    /\ redis_client \in BOOLEAN
    /\ redis_reachable = TRUE
    /\ session_store = <<>>
    /\ institutions = [t \in Tenants |-> [is_active |-> TRUE]]
    /\ tenant_cache = <<>>
    /\ issued = {}
    /\ auth_last = AuthOutcome("init", "none", NoToken)
    /\ logged_out = {}
    /\ first_fail = "none"
    /\ auth_rl = <<>>
    /\ http_req = NoRequest
    /\ http_last = NoResponse

\* a call of authenticate_user, as POST /auth/login makes it
AuthenticateUser(email, password, tenant_domain) ==
    \E r \in {authenticate_user(email, password, tenant_domain)} :
        /\ r.success => Cardinality(issued) < MaxSessions
        /\ session_store' = r.sessions
        /\ tenant_cache' = r.cache
        /\ issued' = IF r.success THEN issued \cup {r.token} ELSE issued
        /\ first_fail' = IF ~r.success /\ first_fail = "none"
                         THEN login_detail(r) ELSE first_fail
        /\ auth_last' = AuthOutcome("authenticate_user",
                                    IF r.success THEN "ok" ELSE login_detail(r),
                                    r.token)
        /\ UNCHANGED <<nonAuthVars, routeVars, now, redis_client, redis_reachable, institutions, logged_out>>

\* the tokens a caller can present: the issued ones and forgeries of them
Presentable == issued \cup {[t EXCEPT !.sig = "forged"] : t \in issued}

\* get_current_user: a call of verify_token
VerifyToken(token) ==
    LET v == verify_token(token)
    IN  /\ session_store' = v.sessions
        /\ tenant_cache' = v.cache
        /\ auth_last' = AuthOutcome("verify_token", v.detail, token)
        /\ UNCHANGED <<nonAuthVars, routeVars, now, redis_client, redis_reachable, institutions, issued, logged_out,
                       first_fail>>

\* POST /auth/logout: get_current_user, then the session entry is deleted
Logout(token) ==
    LET v == verify_token(token)
        sid == token.session_id
        deleted == v.detail = "ok" /\ redis_client
    IN  /\ session_store' = IF deleted
                            THEN [s \in DOMAIN v.sessions \ {sid} |-> v.sessions[s]]
                            ELSE v.sessions
        /\ tenant_cache' = v.cache
        /\ logged_out' = IF deleted THEN logged_out \cup {sid} ELSE logged_out
        /\ auth_last' = AuthOutcome("logout", v.detail, token)
        /\ UNCHANGED <<nonAuthVars, routeVars, now, redis_client, redis_reachable, institutions, issued, first_fail>>

\* PUT /auth/tenant/config: get_current_user and require_role, then the
\* tenant's entry is removed from the cache
UpdateTenantConfig(token) ==
    LET v == verify_token(token)
        permitted == v.detail = "ok" /\ token.role = "institution_admin"
    IN  /\ session_store' = v.sessions
        /\ tenant_cache' = IF permitted
                           THEN [t \in DOMAIN v.cache \ {token.tenant_id} |-> v.cache[t]]
                           ELSE v.cache
        /\ auth_last' = AuthOutcome("update_tenant_config",
                                    IF v.detail # "ok" THEN v.detail
                                    ELSE IF permitted THEN "ok"
                                    ELSE "Role required", token)
        /\ UNCHANGED <<nonAuthVars, routeVars, now, redis_client, redis_reachable, institutions, issued, logged_out,
                       first_fail>>

\* the store's row of a tenant is set to is_active = 0
DeactivateTenant(t) ==
    /\ institutions[t].is_active
    /\ institutions' = [institutions EXCEPT ![t].is_active = FALSE]
    /\ UNCHANGED <<nonAuthVars, routeVars, now, redis_client, redis_reachable, session_store, tenant_cache, issued,
                   auth_last, logged_out, first_fail>>

\* time passes
AuthAdvance ==
    /\ now + AuthTick <= AuthMaxNow
    /\ now' = now + AuthTick
    /\ UNCHANGED <<authVars, nonAuthVars>>

\* the connection to Redis is lost
RedisOutage ==
    /\ redis_client /\ redis_reachable
    /\ redis_reachable' = FALSE
    /\ UNCHANGED <<nonAuthVars, routeVars, now, redis_client, session_store, institutions,
                   tenant_cache, issued, auth_last, logged_out, first_fail>>

AuthNext ==
    \/ \E e \in Emails, p \in Passwords, d \in Domains : AuthenticateUser(e, p, d)
    \/ \E token \in Presentable : VerifyToken(token)
    \/ \E token \in Presentable : Logout(token)
    \/ \E token \in Presentable : UpdateTenantConfig(token)
    \/ \E t \in Tenants : DeactivateTenant(t)
    \/ AuthAdvance
    \/ RedisOutage

SpecAuth == AuthInit /\ [][AuthNext]_vars

----------------------------------------------------------------------------
(* Properties of the authentication service, checked under SpecAuth        *)

\* C1: once logout has deleted the session entry of a session id (Redis
\* client present), every later verify_token on a token of that session id
\* whose signature and exp are still valid fails with the 401 whose detail
\* is 'Session expired'.
C1_SessionRevocation ==
    ( /\ auth_last.op = "verify_token"
      /\ redis_client
      /\ auth_last.session_id \in logged_out
      /\ auth_last.token_ok )
    => auth_last.detail = "Session expired"

\* C2: once the store holds is_active = false for a tenant, the next
\* verify_token on a validly signed, unexpired token of that tenant (its
\* session still live) fails with the 401 whose detail is 'Tenant inactive',
\* whether or not the tenant's config was in the tenant cache.
C2_TenantDeactivation ==
    ( /\ auth_last.op = "verify_token"
      /\ auth_last.token_ok
      /\ auth_last.session_ok
      /\ ~auth_last.store_active )
    => auth_last.detail = "Tenant inactive"

\* C8: every failing login returns the same error message: the message of
\* a failing authenticate_user is the message the first failing one returned,
\* whichever step failed.
C8_LoginInformationHiding ==
    (auth_last.op = "authenticate_user" /\ auth_last.detail # "ok")
    => auth_last.detail = first_fail

\* C13: when the session store cannot be reached, because no client was
\* created at start-up or because the session lookup raises during the call,
\* verify_token accepts a token that has a valid signature, an unexpired exp
\* and an active tenant.
C13_SessionStoreFailsOpen ==
    ( /\ auth_last.op = "verify_token"
      /\ auth_last.token_ok
      /\ auth_last.store_active
      /\ (~redis_client \/ ~auth_last.lookup_ok) )
    => auth_last.detail = "ok"

----------------------------------------------------------------------------
(* Sessions of tenants with and without a session timeout of their own     *)

\* a session timeout a tenant's settings may configure, in minutes
ConfiguredTimeout == 30

\* the rows of institutions: settings without a security section, or with
\* one whose session_timeout_minutes is the configured value
TenantRows ==
    { [is_active |-> TRUE],
      [is_active |-> TRUE, session_timeout_minutes |-> ConfiguredTimeout] }

\* security_settings['session_timeout_minutes'] of a tenant's config, 60
\* when its settings have no security section
SessionTimeoutMinutes(t) ==
    IF "session_timeout_minutes" \in DOMAIN institutions[t]
    THEN institutions[t].session_timeout_minutes
    ELSE 60

SessionInit ==
    /\ now = 0
    /\ IncrQuiet
    /\ RateQuiet
    /\ CBQuiet
    /\ ShadowQuiet
    /\ redis_client \in BOOLEAN
    /\ redis_reachable = TRUE
    /\ session_store = <<>>
    /\ institutions \in [Tenants -> TenantRows]
    /\ tenant_cache = <<>>
    /\ issued = {}
    /\ auth_last = AuthOutcome("init", "none", NoToken)
    /\ logged_out = {}
    /\ first_fail = "none"
    /\ auth_rl = <<>>
    /\ http_req = NoRequest
    /\ http_last = NoResponse

SessionNext ==
    \/ AuthenticateUser("e1", "pw1", NoDomain)
    \/ \E token \in Presentable : VerifyToken(token)
    \/ \E token \in Presentable : Logout(token)
    \/ AuthAdvance

SpecSession == SessionInit /\ [][SessionNext]_vars

\* C22: after every successful verify_token the session entry's
\* last_activity is the time of that verification and its time to live is
\* the session timeout configured for the token's tenant, 60 minutes when
\* the tenant configures none.
C22_SessionTouch ==
    [][ ( /\ auth_last' # auth_last \/ session_store' # session_store
          /\ auth_last'.op = "verify_token"
          /\ auth_last'.detail = "ok"
          /\ redis_client )
        => /\ auth_last'.session_id \in DOMAIN session_store'
           /\ session_store'[auth_last'.session_id].last_activity = now'
           /\ session_store'[auth_last'.session_id].expires_at
                = now' + SessionTimeoutMinutes(auth_last'.tenant_id) * 60 ]_vars

----------------------------------------------------------------------------
(* EnterpriseRateLimiter._increment_counter under concurrent callers       *)

\* the key all callers increment: one client, one window, one endpoint
IncrKey == <<"user:a", "minute", 0, <<"api", "courses">>>>

\* a Redis key reads as absent from its expiry time on
RedisLive(store, key) == key \in DOMAIN store /\ store[key].expires_at > now

\* the pipeline INCR key; EXPIRE key ttl, executed as one transaction
RedisIncrExpire(store, key, ttl) ==
    LET count == IF RedisLive(store, key) THEN store[key].count + 1 ELSE 1
    IN  [k \in DOMAIN store \cup {key} |->
            IF k = key THEN [count |-> count, expires_at |-> now + ttl]
            ELSE store[k]]

\* the counter as stored for a key, 0 when there is none
StoredCount(key) ==
    IF rl_redis
    THEN IF RedisLive(counters, key) THEN counters[key].count ELSE 0
    ELSE IF key \in DOMAIN memory_store THEN heap[memory_store[key]].count ELSE 0

\* a call ends: with the value it returns, or raising (value 0)
IncrEnd(c, value) ==
    /\ pc' = [pc EXCEPT ![c] = "idle"]
    /\ completed' = completed + 1
    /\ returned' = IF value > 0 THEN returned \cup {value} ELSE returned
    /\ dup_return' = (dup_return \/ value \in returned)

IncrInit ==
    /\ now = 0
    /\ AuthQuiet
    /\ RateQuiet
    /\ CBQuiet
    /\ ShadowQuiet
    /\ rl_redis \in BOOLEAN
    /\ counters = <<>>
    /\ memory_store = <<>>
    /\ heap = <<>>
    /\ pc = [c \in Callers |-> "idle"]
    /\ loc = [c \in Callers |-> [calls |-> 0]]
    /\ returned = {}
    /\ dup_return = FALSE
    /\ completed = 0

\* _increment_counter with a Redis client: the pipeline, then result[0]
IncrRedis(c) ==
    /\ pc[c] = "idle" /\ loc[c].calls < MaxCalls /\ rl_redis
    /\ counters' = RedisIncrExpire(counters, IncrKey, 60)
    /\ loc' = [loc EXCEPT ![c].calls = @ + 1]
    /\ IncrEnd(c, counters'[IncrKey].count)
    /\ UNCHANGED <<nonIncrVars, rl_redis, memory_store, heap>>

\* _increment_counter without one: _fallback_increment is entered
IncrFallback(c) ==
    /\ pc[c] = "idle" /\ loc[c].calls < MaxCalls /\ ~rl_redis
    /\ pc' = [pc EXCEPT ![c] = "clean"]
    /\ loc' = [loc EXCEPT ![c].calls = @ + 1]
    /\ UNCHANGED <<nonIncrVars, rl_redis, counters, memory_store, heap, returned,
                   dup_return, completed>>

\* _fallback_increment: the dict comprehension over self.memory_store
FallbackClean(c) ==
    /\ pc[c] = "clean"
    /\ LET kept == {k \in DOMAIN memory_store :
                       heap[memory_store[k]].timestamp > now - 86400}
       IN  loc' = [loc EXCEPT ![c] =
                     [calls |-> @.calls, fresh |-> [k \in kept |-> memory_store[k]]]]
    /\ pc' = [pc EXCEPT ![c] = "assign"]
    /\ UNCHANGED <<nonIncrVars, rl_redis, counters, memory_store, heap, returned,
                   dup_return, completed>>

\* _fallback_increment: self.memory_store = <the comprehension's dict>
FallbackAssign(c) ==
    /\ pc[c] = "assign"
    /\ memory_store' = loc[c].fresh
    /\ loc' = [loc EXCEPT ![c] = [calls |-> @.calls]]
    /\ pc' = [pc EXCEPT ![c] = "check"]
    /\ UNCHANGED <<nonIncrVars, rl_redis, counters, heap, returned, dup_return, completed>>

\* _fallback_increment: if key not in self.memory_store: a new entry
FallbackInsert(c) ==
    /\ pc[c] = "check"
    /\ IF IncrKey \in DOMAIN memory_store
       THEN UNCHANGED <<memory_store, heap>>
       ELSE LET entry == Len(heap) + 1
            IN  /\ heap' = Append(heap, [count |-> 0, timestamp |-> now])
                /\ memory_store' = memory_store @@ (IncrKey :> entry)
    /\ pc' = [pc EXCEPT ![c] = "read"]
    /\ UNCHANGED <<nonIncrVars, rl_redis, counters, loc, returned, dup_return, completed>>

\* _fallback_increment: self.memory_store[key]['count'] += 1, the read
FallbackRead(c) ==
    /\ pc[c] = "read"
    /\ IF IncrKey \in DOMAIN memory_store
       THEN /\ loc' = [loc EXCEPT ![c] =
                         [calls |-> @.calls, entry |-> memory_store[IncrKey],
                          count |-> heap[memory_store[IncrKey]].count]]
            /\ pc' = [pc EXCEPT ![c] = "write"]
            /\ UNCHANGED <<returned, dup_return, completed>>
       ELSE /\ IncrEnd(c, 0)
            /\ UNCHANGED loc
    /\ UNCHANGED <<nonIncrVars, rl_redis, counters, memory_store, heap>>

\* _fallback_increment: self.memory_store[key]['count'] += 1, the write
FallbackWrite(c) ==
    /\ pc[c] = "write"
    /\ heap' = [heap EXCEPT ![loc[c].entry].count = loc[c].count + 1]
    /\ loc' = [loc EXCEPT ![c] = [calls |-> @.calls]]
    /\ pc' = [pc EXCEPT ![c] = "return"]
    /\ UNCHANGED <<nonIncrVars, rl_redis, counters, memory_store, returned, dup_return,
                   completed>>

\* _fallback_increment: return self.memory_store[key]['count']
FallbackReturn(c) ==
    /\ pc[c] = "return"
    /\ IF IncrKey \in DOMAIN memory_store
       THEN IncrEnd(c, heap[memory_store[IncrKey]].count)
       ELSE IncrEnd(c, 0)
    /\ UNCHANGED <<nonIncrVars, rl_redis, counters, memory_store, heap, loc>>

IncrNext ==
    \/ \E c \in Callers : IncrRedis(c)
    \/ \E c \in Callers : IncrFallback(c)
    \/ \E c \in Callers : FallbackClean(c)
    \/ \E c \in Callers : FallbackAssign(c)
    \/ \E c \in Callers : FallbackInsert(c)
    \/ \E c \in Callers : FallbackRead(c)
    \/ \E c \in Callers : FallbackWrite(c)
    \/ \E c \in Callers : FallbackReturn(c)

SpecIncr == IncrInit /\ [][IncrNext]_vars

\* C3: for a fixed client and window key, N calls of _increment_counter
\* raise the stored counter by exactly N and return 1..N each exactly once,
\* for every interleaving of concurrent callers, on the Redis path and on
\* the in-memory fallback path.
C3_CounterMonotonicity ==
    (\A c \in Callers : pc[c] = "idle")
    => /\ StoredCount(IncrKey) = completed
       /\ returned = 1..completed
       /\ ~dup_return

----------------------------------------------------------------------------
(* EnterpriseRateLimiter.check_rate_limit, one check after another         *)

\* the clock readings a step of time may add, in seconds
RateSteps == {1, 60}

\* the clock readings the rate limiter may be constructed at
StartTimes == {58, 59}

\* the endpoint whose ceiling the requests are sent against
TestedEndpoint == <<"api", "ai-tutor", "generate">>

RECURSIVE SumOver(_, _)
SumOver(f, S) ==
    IF S = {} THEN 0
    ELSE LET x == CHOOSE y \in S : TRUE IN f[x] + SumOver(f, S \ {x})

\* the rate limiter's stores, as the operators below pass them along
RateStores == [counters |-> counters, memory_store |-> memory_store,
               heap |-> heap, buckets |-> buckets]

_get_endpoint_category(endpoint) ==
    LET matches(i) == \E ep \in ENDPOINT_CATEGORIES[i].endpoints :
                          StartsWith(endpoint, ep)
    IN  IF \E i \in 1..Len(ENDPOINT_CATEGORIES) : matches(i)
        THEN LET first == CHOOSE i \in 1..Len(ENDPOINT_CATEGORIES) :
                             /\ matches(i)
                             /\ \A j \in 1..(i - 1) : ~matches(j)
             IN  ENDPOINT_CATEGORIES[first].category
        ELSE "standard"

\* SUBSCRIPTION_LIMITS.get(subscription_plan, SUBSCRIPTION_LIMITS['starter'])
_get_rate_limit_config(table, subscription_plan) ==
    IF subscription_plan \in DOMAIN table THEN table[subscription_plan]
    ELSE table.starter

_get_redis_key(client_id, window, endpoint) ==
    LET window_start == IF window = "minute" THEN now \div 60
                        ELSE IF window = "hour" THEN now \div 3600
                        ELSE IF window = "day" THEN now \div 86400
                        ELSE now
    IN  IF endpoint # <<>>
        THEN <<"rate_limit", client_id, window, window_start, endpoint>>
        ELSE <<"rate_limit", client_id, window, window_start>>

\* the whole of _fallback_increment, run by one caller at a time
_fallback_increment(st, key) ==
    LET kept == {k \in DOMAIN st.memory_store :
                    st.heap[st.memory_store[k]].timestamp > now - 86400}
        cleaned == [k \in kept |-> st.memory_store[k]]
        absent == key \notin kept
        heap1 == IF absent
                 THEN Append(st.heap, [count |-> 0, timestamp |-> now])
                 ELSE st.heap
        store1 == IF absent THEN cleaned @@ (key :> Len(heap1)) ELSE cleaned
        heap2 == [heap1 EXCEPT ![store1[key]].count = @ + 1]
    IN  [st |-> [st EXCEPT !.memory_store = store1, !.heap = heap2],
         value |-> heap2[store1[key]].count]

_increment_counter(st, key, ttl) ==
    IF rl_redis
    THEN LET store1 == RedisIncrExpire(st.counters, key, ttl)
         IN  [st |-> [st EXCEPT !.counters = store1], value |-> store1[key].count]
    ELSE _fallback_increment(st, key)

\* tokens_to_add = int(time_passed * (config.requests_per_minute / 60)),
\* on clock readings that are whole seconds
tokens_to_add(last_refill, config) ==
    ((now - last_refill) * config.requests_per_minute) \div 60

Min(a, b) == IF a <= b THEN a ELSE b

Max(a, b) == IF a >= b THEN a ELSE b

_get_burst_tokens(st, client_id, config) ==
    LET bucket_key == <<"burst_bucket", client_id>> IN
    IF rl_redis
    THEN IF ~RedisLive(st.buckets, bucket_key)
         THEN [st |-> [st EXCEPT !.buckets =
                          [k \in DOMAIN st.buckets \cup {bucket_key} |->
                              IF k = bucket_key
                              THEN [tokens |-> config.burst_capacity,
                                    last_refill |-> now,
                                    expires_at |-> now + 3600]
                              ELSE st.buckets[k]]],
               tokens |-> config.burst_capacity]
         ELSE LET bucket_data == st.buckets[bucket_key]
                  tokens == Min(config.burst_capacity,
                                bucket_data.tokens
                                  + tokens_to_add(bucket_data.last_refill, config))
              IN  [st |-> [st EXCEPT !.buckets[bucket_key] =
                              [@ EXCEPT !.tokens = tokens, !.last_refill = now]],
                   tokens |-> tokens]
    ELSE [st |-> st, tokens |-> config.burst_capacity \div 2]

\* a limiter that lets the overflow through without taking a token: the
\* burst boundary must tell it from the code's
_consume_burst_token_kept(st, client_id) ==
    [st |-> st, consumed |-> TRUE]

_consume_burst_token(st, client_id) ==
    LET bucket_key == <<"burst_bucket", client_id>> IN
    IF rl_redis
    THEN IF RedisLive(st.buckets, bucket_key) /\ st.buckets[bucket_key].tokens > 0
         THEN [st |-> [st EXCEPT !.buckets[bucket_key].tokens = @ - 1],
               consumed |-> TRUE]
         ELSE [st |-> st, consumed |-> FALSE]
    ELSE [st |-> st, consumed |-> TRUE]

\* a check in which a burst token also rescues a request from the hour and
\* day ceilings: the ceiling properties must tell this from the code's
check_rate_limit_rescued(st, table, client_id, subscription_plan, endpoint) ==
    LET config == _get_rate_limit_config(table, subscription_plan)
        endpoint_category == _get_endpoint_category(endpoint)
        rpm_limit == IF endpoint_category = "expensive"
                     THEN config.expensive_endpoints_rpm
                     ELSE IF endpoint_category = "auth"
                     THEN config.auth_endpoints_rpm
                     ELSE config.standard_endpoints_rpm
        minute == _increment_counter(st, _get_redis_key(client_id, "minute", endpoint), 60)
        hour == _increment_counter(minute.st, _get_redis_key(client_id, "hour", <<>>), 3600)
        day == _increment_counter(hour.st, _get_redis_key(client_id, "day", <<>>), 86400)
        burst == _get_burst_tokens(day.st, client_id, config)
        over_minute == minute.value > rpm_limit
        rescued == over_minute /\ burst.tokens > 0
        st1 == IF rescued THEN _consume_burst_token(burst.st, client_id).st
               ELSE burst.st
        over_hour == hour.value > config.requests_per_hour
        over_day == day.value > config.requests_per_day
    IN  [st |-> st1,
         allowed |-> rescued \/ (~over_minute /\ ~over_hour /\ ~over_day),
         limit_exceeded |-> IF rescued THEN "none"
                            ELSE IF over_day THEN "day"
                            ELSE IF over_hour THEN "hour"
                            ELSE IF over_minute THEN "minute"
                            ELSE "none",
         category |-> endpoint_category,
         minute_count |-> minute.value, hour_count |-> hour.value,
         day_count |-> day.value, rpm_limit |-> rpm_limit,
         hour_limit |-> config.requests_per_hour,
         day_limit |-> config.requests_per_day,
         burst_capacity |-> config.burst_capacity,
         burst_tokens |-> burst.tokens,
         remaining_minute |-> Max(0, rpm_limit - minute.value),
         remaining_hour |-> Max(0, config.requests_per_hour - hour.value),
         remaining_day |-> Max(0, config.requests_per_day - day.value),
         raised |-> "none"]

\* check_rate_limit for a request of client_id on subscription_plan to
\* endpoint, with the plan table as it stands: the stores it leaves behind
\* and what it returns
check_rate_limit(st, table, client_id, subscription_plan, endpoint) ==
    LET config == _get_rate_limit_config(table, subscription_plan)
        endpoint_category == _get_endpoint_category(endpoint)
        rpm_limit == IF endpoint_category = "expensive"
                     THEN config.expensive_endpoints_rpm
                     ELSE IF endpoint_category = "auth"
                     THEN config.auth_endpoints_rpm
                     ELSE config.standard_endpoints_rpm
        minute == _increment_counter(st, _get_redis_key(client_id, "minute", endpoint), 60)
        hour == _increment_counter(minute.st, _get_redis_key(client_id, "hour", <<>>), 3600)
        day == _increment_counter(hour.st, _get_redis_key(client_id, "day", <<>>), 86400)
        burst == _get_burst_tokens(day.st, client_id, config)
        over_minute == minute.value > rpm_limit
        rescued == over_minute /\ burst.tokens > 0
        st1 == IF rescued THEN _consume_burst_token(burst.st, client_id).st
               ELSE burst.st
        over_hour == hour.value > config.requests_per_hour
        over_day == day.value > config.requests_per_day
    IN  [st |-> st1,
         allowed |-> ~(over_minute /\ ~rescued) /\ ~over_hour /\ ~over_day,
         limit_exceeded |-> IF over_day THEN "day"
                            ELSE IF over_hour THEN "hour"
                            ELSE IF over_minute /\ ~rescued THEN "minute"
                            ELSE "none",
         category |-> endpoint_category,
         minute_count |-> minute.value, hour_count |-> hour.value,
         day_count |-> day.value, rpm_limit |-> rpm_limit,
         hour_limit |-> config.requests_per_hour,
         day_limit |-> config.requests_per_day,
         burst_capacity |-> config.burst_capacity,
         burst_tokens |-> burst.tokens,
         remaining_minute |-> Max(0, rpm_limit - minute.value),
         remaining_hour |-> Max(0, config.requests_per_hour - hour.value),
         remaining_day |-> Max(0, config.requests_per_day - day.value),
         raised |-> "none"]

\* the tokens a client's bucket holds, -1 when it has no bucket
BucketTokens(store, client_id) ==
    IF RedisLive(store, <<"burst_bucket", client_id>>)
    THEN store[<<"burst_bucket", client_id>>].tokens
    ELSE -1

\* what a check adds to the record of the client's current minute window:
\* the requests checked in it, their endpoints, whether the bucket was full
\* at its first request and whether the bucket gained tokens after that
WindowAfter(win, client_id, endpoint, tokens_before, res) ==
    IF win.index = now \div 60
    THEN [win EXCEPT !.n = @ + 1,
                     !.endpoints = @ \cup {endpoint},
                     !.refilled = @ \/ (rl_redis /\ res.burst_tokens > tokens_before)]
    ELSE [index |-> now \div 60, n |-> 1, endpoints |-> {endpoint},
          full |-> res.burst_tokens = res.burst_capacity, refilled |-> FALSE]

RateInit ==
    /\ now \in StartTimes
    /\ AuthQuiet
    /\ CallersQuiet
    /\ CBQuiet
    /\ ShadowQuiet
    /\ rl_redis \in BOOLEAN
    /\ counters = <<>>
    /\ memory_store = <<>>
    /\ heap = <<>>
    /\ limits = SUBSCRIPTION_LIMITS
    /\ buckets = <<>>
    /\ rl_last = NoCheck
    /\ rl_win = [c \in Clients |-> NoWindow]
    /\ requests = [e \in Endpoints |-> 0]
    /\ ticks = 0

\* one request is checked, from entry to return
CheckRateLimit(client_id, endpoint) ==
    /\ SumOver(requests, Endpoints) < MaxRequests
    /\ endpoint # TestedEndpoint => requests[endpoint] < MaxOther
    /\ \E res \in {check_rate_limit(RateStores, limits, client_id,
                                      PlanOf(client_id), endpoint)} :
           /\ counters' = res.st.counters
           /\ memory_store' = res.st.memory_store
           /\ heap' = res.st.heap
           /\ buckets' = res.st.buckets
           /\ rl_last' = [op |-> "check_rate_limit", client |-> client_id,
                          endpoint |-> endpoint, category |-> res.category,
                          allowed |-> res.allowed,
                          limit_exceeded |-> res.limit_exceeded,
                          minute_count |-> res.minute_count,
                          hour_count |-> res.hour_count,
                          day_count |-> res.day_count,
                          rpm_limit |-> res.rpm_limit,
                          hour_limit |-> res.hour_limit,
                          day_limit |-> res.day_limit,
                          burst_capacity |-> res.burst_capacity,
                          burst_tokens |-> res.burst_tokens,
                          remaining_minute |-> res.remaining_minute,
                          remaining_hour |-> res.remaining_hour,
                          remaining_day |-> res.remaining_day,
                          raised |-> res.raised]
           /\ rl_win' = [rl_win EXCEPT ![client_id] =
                           WindowAfter(@, client_id, endpoint,
                                       BucketTokens(buckets, client_id), res)]
    /\ requests' = [requests EXCEPT ![endpoint] = @ + 1]
    /\ UNCHANGED <<now, authVars, cbVars, shadowVars, rl_redis, pc, loc, returned,
                   dup_return, completed, limits, ticks>>

\* time passes
RateAdvance(d) ==
    /\ ticks < MaxTicks
    /\ now' = now + d
    /\ ticks' = ticks + 1
    /\ UNCHANGED <<authVars, incrVars, cbVars, shadowVars, limits, buckets, rl_last,
                   rl_win, requests>>

RateNext ==
    \/ \E c \in Clients, e \in Endpoints : CheckRateLimit(c, e)
    \/ \E d \in RateSteps : RateAdvance(d)

SpecRate == RateInit /\ [][RateNext]_vars

\* the last check was of the only endpoint its client has used in the
\* current minute window, as that window's n-th request
OnlyEndpoint ==
    /\ rl_last.op = "check_rate_limit"
    /\ rl_win[rl_last.client].endpoints = {rl_last.endpoint}

----------------------------------------------------------------------------
(* EnterpriseRateLimiter.check_rate_limit on a client that has made        *)
(* requests before: the hour and day ceilings                              *)

\* what the client has done in the current windows before the first check
\* here: its requests to the tested endpoint this minute, its requests this
\* hour and this day, and the tokens left in its bucket (-1: no bucket, as
\* after the bucket's hour to live)
PriorTraffic ==
    { [minute |-> m, hour |-> hd[1], day |-> hd[2], tokens |-> t] :
        m \in {0, 10},
        hd \in { <<2999, 2999>>, <<3000, 3000>>, <<3000, 50000>> },
        t \in {-1, 0} }

PriorClient == "user:a"

\* the window keys of the prior requests and their counts
PriorKeys(prior) ==
    LET minute_key == _get_redis_key(PriorClient, "minute", TestedEndpoint)
        hour_key == _get_redis_key(PriorClient, "hour", <<>>)
        day_key == _get_redis_key(PriorClient, "day", <<>>)
    IN  (IF prior.minute > 0 THEN <<[key |-> minute_key, count |-> prior.minute, ttl |-> 60]>>
         ELSE <<>>)
        \o <<[key |-> hour_key, count |-> prior.hour, ttl |-> 3600],
             [key |-> day_key, count |-> prior.day, ttl |-> 86400]>>

\* the stores as the prior requests, the last of them at this second, left
\* them: in Redis, or in the memory store when there is no client
PriorStores(prior) ==
    LET keys == PriorKeys(prior)
        idx == 1..Len(keys)
        at(k) == CHOOSE i \in idx : keys[i].key = k
    IN  IF rl_redis
        THEN [counters |-> [k \in {keys[i].key : i \in idx} |->
                              [count |-> keys[at(k)].count,
                               expires_at |-> now + keys[at(k)].ttl]],
              memory_store |-> <<>>,
              heap |-> <<>>,
              buckets |-> IF prior.tokens >= 0
                          THEN (<<"burst_bucket", PriorClient>> :>
                                  [tokens |-> prior.tokens, last_refill |-> now,
                                   expires_at |-> now + 1800])
                          ELSE <<>>]
        ELSE [counters |-> <<>>,
              memory_store |-> [k \in {keys[i].key : i \in idx} |-> at(k)],
              heap |-> [i \in idx |-> [count |-> keys[i].count, timestamp |-> now]],
              buckets |-> <<>>]

CeilInit ==
    /\ now \in StartTimes
    /\ AuthQuiet
    /\ CallersQuiet
    /\ CBQuiet
    /\ ShadowQuiet
    /\ rl_redis \in BOOLEAN
    /\ \E prior \in PriorTraffic :
          /\ rl_redis \/ prior.tokens = -1
          /\ counters = PriorStores(prior).counters
          /\ memory_store = PriorStores(prior).memory_store
          /\ heap = PriorStores(prior).heap
          /\ buckets = PriorStores(prior).buckets
    /\ limits = SUBSCRIPTION_LIMITS
    /\ rl_last = NoCheck
    /\ rl_win = [c \in Clients |-> NoWindow]
    /\ requests = [e \in Endpoints |-> 0]
    /\ ticks = 0

SpecCeil == CeilInit /\ [][RateNext]_vars

\* C11: check_rate_limit denies every request whose hour counter exceeds the
\* plan's requests_per_hour, with limit_exceeded = 'hour', also when a burst
\* token rescued the request from the minute ceiling.
C11_HourOverridesBurst ==
    (rl_last.op = "check_rate_limit" /\ rl_last.hour_count > rl_last.hour_limit)
    => (~rl_last.allowed /\ rl_last.limit_exceeded = "hour")

\* C11, amended: every such request is denied, rescued by a burst token or
\* not; the limit reported is 'hour' unless the day counter exceeds
\* requests_per_day as well, and then it is 'day'.
C11_HourOrDayOverridesBurst ==
    (rl_last.op = "check_rate_limit" /\ rl_last.hour_count > rl_last.hour_limit)
    => /\ ~rl_last.allowed
       /\ rl_last.limit_exceeded =
            IF rl_last.day_count > rl_last.day_limit THEN "day" ELSE "hour"

\* a request over the minute ceiling with a token in the bucket, denied on
\* the hour ceiling
C11_Witness ==
    /\ rl_last.op = "check_rate_limit"
    /\ rl_last.minute_count > rl_last.rpm_limit
    /\ rl_last.burst_tokens > 0
    /\ rl_last.hour_count > rl_last.hour_limit
    /\ rl_last.day_count <= rl_last.day_limit
    /\ ~rl_last.allowed
    /\ rl_last.limit_exceeded = "hour"

\* C29: a check_rate_limit call that ends in a denial leaves the client's
\* bucket with the tokens _get_burst_tokens found in it: a token is removed
\* only from the bucket of a request that is allowed.
C29_TokensSpentOnlyOnAllowed ==
    (rl_last.op = "check_rate_limit" /\ rl_redis /\ ~rl_last.allowed)
    => BucketTokens(buckets, rl_last.client) = rl_last.burst_tokens

\* C12: without a Redis client, check_rate_limit allows every request and
\* reports the full limit as remaining for each window, whatever the number
\* of requests made before.
C12_FailsOpen ==
    (rl_last.op = "check_rate_limit" /\ ~rl_redis)
    => /\ rl_last.allowed
       /\ rl_last.remaining_minute = rl_last.rpm_limit
       /\ rl_last.remaining_hour = rl_last.hour_limit
       /\ rl_last.remaining_day = rl_last.day_limit

----------------------------------------------------------------------------
(* AdvancedThrottlingEngine: request metrics and circuit breakers          *)

\* the clock readings a step of time may add, in seconds
CBSteps == {60, 61}

\* the requests recorded: failures of one endpoint, successes of the other
Recorded == { <<<<"api", "courses">>, 500>>, <<<<"api", "progress">>, 200>> }

\* whether a rate, a pair <<numerator, denominator>>, is above another
RateAbove(r, t) == r[1] * t[2] > t[1] * r[2]

\* a Redis key reads as absent from its expiry time on, if it has one
CircuitLive(store, key) ==
    /\ key \in DOMAIN store
    /\ (store[key].expires_at = NoExpiry \/ store[key].expires_at > now)

\* the state of an endpoint's breaker: circuit_state.get('state', 'closed'),
\* closed when there is no key
CBState(endpoint) ==
    IF CircuitLive(circuit, endpoint) THEN circuit[endpoint].state ELSE "closed"

\* the error rate of an endpoint's own recorded requests, as
\* get_throttling_stats reports it
OwnErrorRate(endpoint) ==
    IF endpoint_metrics[endpoint].requests > 0
    THEN <<endpoint_metrics[endpoint].errors, endpoint_metrics[endpoint].requests>>
    ELSE <<0, 1>>

\* the share of the requests recorded so far, on all endpoints, that failed
SystemErrorRate ==
    IF metrics.request_count > 0
    THEN <<metrics.error_count, metrics.request_count>>
    ELSE <<0, 1>>

\* the defaults, whatever has been recorded: the breaker properties must
\* tell this from the code's
_get_error_rate_default(store, reads_ok) == <<5, 100>>

\* errors / requests over the keys error_count and request_count, 0.05 when
\* there is no client or the reads fail; a key that was never incremented
\* is absent, and no clock reading here comes near the keys' hour to live
_get_error_rate(store, reads_ok) ==
    IF th_redis /\ reads_ok
    THEN LET errors == store.error_count
             reqs == IF store.request_count = 0 THEN 1 ELSE store.request_count
         IN  IF reqs > 0 THEN <<errors, reqs>> ELSE <<0, 1>>
    ELSE <<5, 100>>

\* the error_rate of get_system_metrics: the safe defaults when collecting
\* the metrics raises
get_system_metrics(store, metrics_ok) ==
    IF metrics_ok THEN [error_rate |-> _get_error_rate(store, TRUE)]
    ELSE [error_rate |-> <<5, 100>>]

\* a breaker that closes when the cooldown is over: the transition
\* properties must tell this from the code's
_should_apply_circuit_breaker_closing(store, endpoint, metrics_ok) ==
    IF ~th_redis THEN [circuit |-> store, blocked |-> FALSE]
    ELSE IF CircuitLive(store, endpoint) /\ store[endpoint].state = "open"
    THEN IF now - store[endpoint].open_time > circuit_breaker_duration
         THEN [circuit |-> [store EXCEPT ![endpoint].state = "closed"],
               blocked |-> FALSE]
         ELSE [circuit |-> store, blocked |-> TRUE]
    ELSE IF CircuitLive(store, endpoint) /\ store[endpoint].state = "half_open"
    THEN [circuit |-> store, blocked |-> FALSE]
    ELSE LET system == get_system_metrics(metrics, metrics_ok) IN
         IF RateAbove(system.error_rate, circuit_breaker_threshold)
         THEN [circuit |-> [k \in DOMAIN store \cup {endpoint} |->
                              IF k = endpoint
                              THEN [state |-> "open", open_time |-> now,
                                    error_rate |-> system.error_rate,
                                    expires_at |-> now + circuit_breaker_duration * 2]
                              ELSE store[k]],
               blocked |-> TRUE]
         ELSE [circuit |-> store, blocked |-> FALSE]

_should_apply_circuit_breaker(store, endpoint, metrics_ok) ==
    IF ~th_redis THEN [circuit |-> store, blocked |-> FALSE]
    ELSE IF CircuitLive(store, endpoint) /\ store[endpoint].state = "open"
    THEN IF now - store[endpoint].open_time > circuit_breaker_duration
         THEN [circuit |-> [store EXCEPT ![endpoint].state = "half_open"],
               blocked |-> FALSE]
         ELSE [circuit |-> store, blocked |-> TRUE]
    ELSE IF CircuitLive(store, endpoint) /\ store[endpoint].state = "half_open"
    THEN [circuit |-> store, blocked |-> FALSE]
    ELSE LET system == get_system_metrics(metrics, metrics_ok) IN
         IF RateAbove(system.error_rate, circuit_breaker_threshold)
         THEN [circuit |-> [k \in DOMAIN store \cup {endpoint} |->
                              IF k = endpoint
                              THEN [state |-> "open", open_time |-> now,
                                    error_rate |-> system.error_rate,
                                    expires_at |-> now + circuit_breaker_duration * 2]
                              ELSE store[k]],
               blocked |-> TRUE]
         ELSE [circuit |-> store, blocked |-> FALSE]

\* hset(circuit_key, 'state', 'closed'): on a key that is there the other
\* fields and the time to live stay, otherwise the key is created
reset_circuit_breaker(store, endpoint) ==
    IF ~th_redis THEN store
    ELSE IF CircuitLive(store, endpoint)
    THEN [store EXCEPT ![endpoint].state = "closed"]
    ELSE [k \in DOMAIN store \cup {endpoint} |->
             IF k = endpoint
             THEN [state |-> "closed", open_time |-> 0, error_rate |-> <<0, 1>>,
                   expires_at |-> NoExpiry]
             ELSE store[k]]

\* hincrby on the fields of endpoint_metrics:<endpoint>
EndpointMetricsAfter(store, endpoint, status_code) ==
    [store EXCEPT ![endpoint] =
        [requests |-> @.requests + 1,
         errors |-> IF status_code >= 400 THEN @.errors + 1 ELSE @.errors]]

CBInit ==
    /\ now = 0
    /\ AuthQuiet
    /\ IncrQuiet
    /\ RateQuiet
    /\ ShadowQuiet
    /\ th_redis \in BOOLEAN
    /\ circuit = <<>>
    /\ metrics = NoMetrics
    /\ endpoint_metrics = [e \in CBEndpoints |-> [requests |-> 0, errors |-> 0]]
    /\ cb_last = NoCircuitOp
    /\ probes = [e \in CBEndpoints |-> 0]
    /\ cb_steps = [records |-> 0, errors |-> 0, calls |-> 0, resets |-> 0, ticks |-> 0]

\* record_request_metrics for a request of the tenant RecordedTenant: the
\* pipeline on the system-wide and the endpoint's counters, then
\* _update_tenant_behavior on the tenant's counters (the response time
\* lists it also writes are read by none of the operations here)
RecordRequestMetrics(endpoint, status_code) ==
    /\ cb_steps.records < MaxRecords
    /\ status_code >= 400 => cb_steps.errors < MaxErrors
    /\ cb_steps' = [cb_steps EXCEPT !.records = @ + 1,
                                    !.errors = IF status_code >= 400 THEN @ + 1
                                               ELSE @]
    /\ IF th_redis
       THEN /\ metrics' =
                 [request_count |-> metrics.request_count + 1,
                  error_count |-> IF status_code >= 400
                                  THEN metrics.error_count + 1
                                  ELSE metrics.error_count,
                  behavior_requests |-> metrics.behavior_requests + 1,
                  behavior_errors |-> IF status_code >= 400
                                      THEN metrics.behavior_errors + 1
                                      ELSE metrics.behavior_errors]
            /\ endpoint_metrics' =
                 EndpointMetricsAfter(endpoint_metrics, endpoint, status_code)
       ELSE UNCHANGED <<metrics, endpoint_metrics>>
    /\ UNCHANGED <<now, authVars, incrVars, rateVars, shadowVars, th_redis, circuit,
                   cb_last, probes>>

\* one call of _should_apply_circuit_breaker, from entry to return
ShouldApplyCircuitBreaker(endpoint, metrics_ok) ==
    /\ cb_steps.calls < MaxCBCalls
    /\ cb_steps' = [cb_steps EXCEPT !.calls = @ + 1]
    /\ LET res == _should_apply_circuit_breaker(circuit, endpoint, metrics_ok)
           before == CBState(endpoint)
           after == IF CircuitLive(res.circuit, endpoint)
                    THEN res.circuit[endpoint].state ELSE "closed"
           system == SystemErrorRate
       IN  /\ circuit' = res.circuit
           /\ cb_last' =
                [op |-> "_should_apply_circuit_breaker", endpoint |-> endpoint,
                 before |-> before, after |-> after, blocked |-> res.blocked,
                 cooled |-> /\ before = "open"
                            /\ now - circuit[endpoint].open_time
                                 > circuit_breaker_duration,
                 own_exceeds |-> RateAbove(OwnErrorRate(endpoint),
                                           circuit_breaker_threshold),
                 system_exceeds |-> th_redis /\ RateAbove(system,
                                                 circuit_breaker_threshold),
                 metrics_ok |-> metrics_ok,
                 stored_now |-> /\ after = "open"
                                /\ res.circuit[endpoint].open_time = now
                                /\ res.circuit[endpoint].error_rate = system,
                 plan |-> "none", whitelisted |-> FALSE, quotas |-> <<0, 0, 0>>,
                 raised |-> "none", untouched |-> res.circuit = circuit,
                 category |-> "none", load_level |-> "none",
                 tenant_multiplier |-> 0, multiplier |-> <<0, 1>>,
                 tenant_requests |-> 0, tenant_rate |-> <<0, 1>>,
                 sample |-> [cpu_percent |-> 0, memory_percent |-> 0]]
           /\ probes' = [probes EXCEPT ![endpoint] =
                           IF after = "half_open" /\ ~res.blocked THEN @ + 1 ELSE 0]
    /\ UNCHANGED <<now, authVars, incrVars, rateVars, shadowVars, th_redis, metrics,
                   endpoint_metrics>>

\* one call of reset_circuit_breaker
ResetCircuitBreaker(endpoint) ==
    /\ cb_steps.resets < MaxResets
    /\ cb_steps' = [cb_steps EXCEPT !.resets = @ + 1]
    /\ circuit' = reset_circuit_breaker(circuit, endpoint)
    /\ cb_last' = [NoCircuitOp EXCEPT !.op = "reset_circuit_breaker",
                                      !.endpoint = endpoint,
                                      !.before = CBState(endpoint),
                                      !.after = "closed"]
    /\ probes' = [probes EXCEPT ![endpoint] = 0]
    /\ UNCHANGED <<now, authVars, incrVars, rateVars, shadowVars, th_redis, metrics,
                   endpoint_metrics>>

\* time passes; a breaker whose key expires leaves its half-open spell
CBAdvance(d) ==
    /\ cb_steps.ticks < MaxCBTicks
    /\ cb_steps' = [cb_steps EXCEPT !.ticks = @ + 1]
    /\ now' = now + d
    /\ UNCHANGED <<authVars, incrVars, rateVars, shadowVars, th_redis, circuit,
                   metrics, endpoint_metrics, cb_last>>
    /\ probes' = [e \in CBEndpoints |->
                    IF CBState(e)' = "half_open" THEN probes[e] ELSE 0]

CBNext ==
    \/ \E r \in Recorded : RecordRequestMetrics(r[1], r[2])
    \/ \E e \in CBEndpoints, ok \in BOOLEAN : ShouldApplyCircuitBreaker(e, ok)
    \/ \E e \in CBEndpoints : ResetCircuitBreaker(e)
    \/ \E d \in CBSteps : CBAdvance(d)

SpecCB == CBInit /\ [][CBNext]_vars

----------------------------------------------------------------------------
(* Properties of the circuit breakers, checked under SpecCB                *)

\* the call opened the breaker: state 'open' stored with the time of the
\* call and the error rate that triggered it, and the call blocks
Opened ==
    /\ cb_last.after = "open"
    /\ cb_last.stored_now
    /\ cb_last.blocked

C6_SingleProbe ==
    /\ ( /\ cb_last.op = "_should_apply_circuit_breaker"
         /\ cb_last.before = "open"
         /\ cb_last.cooled )
       => (cb_last.after = "half_open" /\ ~cb_last.blocked)
    /\ \A e \in CBEndpoints : probes[e] <= 1

\* the changes of state the specification lists
ListedTransitions ==
    { <<"closed", "open">>, <<"open", "half_open">>,
      <<"half_open", "closed">>, <<"half_open", "open">> }

\* C7: over every sequence of _should_apply_circuit_breaker calls,
\* reset_circuit_breaker calls and key expiries, the state of an endpoint's
\* breaker changes only along closed->open, open->half_open,
\* half_open->closed and half_open->open.
C7_Transitions ==
    [][\A e \in CBEndpoints :
          CBState(e)' # CBState(e)
          => <<CBState(e), CBState(e)'>> \in ListedTransitions]_vars

\* C7, amended: the state changes only along the listed transitions and
\* open->closed, and open->closed only by a reset_circuit_breaker call on
\* the endpoint or by the expiry of the breaker's key.
C7_TransitionsWithReset ==
    [][\A e \in CBEndpoints :
          CBState(e)' # CBState(e)
          => \/ <<CBState(e), CBState(e)'>> \in ListedTransitions
             \/ /\ CBState(e) = "open" /\ CBState(e)' = "closed"
                /\ \/ now' > now
                   \/ /\ cb_last'.op = "reset_circuit_breaker"
                      /\ cb_last'.endpoint = e]_vars

\* reset_circuit_breaker has closed an open breaker
C7_Witness ==
    /\ cb_last.op = "reset_circuit_breaker"
    /\ cb_last.before = "open"
    /\ cb_last.after = "closed"
    /\ CBState(cb_last.endpoint) = "closed"

\* C21: while an endpoint's breaker is half_open, a call of
\* _should_apply_circuit_breaker that observes an error rate above the
\* threshold moves the breaker back to open and blocks, and a call that
\* observes an error rate at or below the threshold moves it to closed.
C21_HalfOpenResolution ==
    (cb_last.op = "_should_apply_circuit_breaker" /\ cb_last.before = "half_open")
    => IF cb_last.metrics_ok /\ cb_last.system_exceeds
       THEN cb_last.after = "open" /\ cb_last.blocked
       ELSE cb_last.after = "closed"

----------------------------------------------------------------------------
(* The rate limiter as advanced_throttling.py integrates it                *)

\* multipliers are counted in tenths, their products in thousandths
load_multipliers == [low |-> 12, medium |-> 10, high |-> 7, critical |-> 3]

category_adjustments == [expensive |-> 8, standard |-> 10, auth |-> 11, admin |-> 9]

\* burst_multiplier = 1.5, as a rate
burst_multiplier == <<15, 10>>

whitelist_patterns == { <<"health">>, <<"metrics">>, <<"api", "auth", "logout">> }

blacklist_patterns == { <<"api", "admin", "backup">>, <<"api", "analytics", "export">> }

\* the cpu and memory percentages psutil may report; the second is also
\* what get_system_metrics falls back to
LoadSamples ==
    { [cpu_percent |-> 20, memory_percent |-> 40],
      [cpu_percent |-> 50, memory_percent |-> 60],
      [cpu_percent |-> 95, memory_percent |-> 50] }

DefaultLoad == [cpu_percent |-> 50, memory_percent |-> 60]

\* the clients whose requests go through the integrated check, the first
\* of them the one observed; both are users of tenants on the starter plan
Observed == "user:a"

ThClients == {"user:a", "user:b"}

TenantOfClient(client_id) == IF client_id = "user:a" THEN "t1" ELSE "t2"

\* a tenant_behavior:<tenant> hash that is not there
NoBehavior == <<>>

\* the tenant_behavior:<tenant> hashes as the engine leaves them:
\* _update_tenant_behavior writes the keys beside the hash, never the hash
TenantBehavior == <<>>

get_load_level(m) ==
    IF m.cpu_percent > 90 \/ m.memory_percent > 95 THEN "critical"
    ELSE IF m.cpu_percent > 70 \/ m.memory_percent > 80 THEN "high"
    ELSE IF m.cpu_percent > 30 \/ m.memory_percent > 50 THEN "medium"
    ELSE "low"

\* pattern in endpoint, on sequences of path segments
Contains(endpoint, pattern) ==
    \E i \in 1..(Len(endpoint) - Len(pattern) + 1) :
        SubSeq(endpoint, i, i + Len(pattern) - 1) = pattern

_is_endpoint_whitelisted(endpoint) ==
    \E pattern \in whitelist_patterns : Contains(endpoint, pattern)

_is_endpoint_blacklisted(endpoint) ==
    \E pattern \in blacklist_patterns : Contains(endpoint, pattern)

\* in tenths: 1.2 for good behaviour, 0.7 for poor, else 1.0; 1.0 without
\* a tenant, a client or a tenant_behavior hash
_get_tenant_behavior_multiplier(tenant_id, behavior_data) ==
    IF tenant_id = "" \/ ~th_redis \/ behavior_data = NoBehavior THEN 10
    ELSE IF /\ RateAbove(<<1, 100>>, behavior_data.error_rate)
            /\ behavior_data.avg_response_time < 200
            /\ RateAbove(<<1, 10>>, behavior_data.abuse_score)
    THEN 12
    ELSE IF \/ RateAbove(behavior_data.error_rate, <<5, 100>>)
            \/ RateAbove(behavior_data.abuse_score, <<5, 10>>)
    THEN 7
    ELSE 10

\* hgetall(tenant_behavior:<tenant>) on the hashes behavior holds
BehaviorOf(behavior, tenant_id) ==
    IF tenant_id \in DOMAIN behavior THEN behavior[tenant_id] ELSE NoBehavior

\* the product is taken for thousandths of a hundred: the bounds property
\* must tell this from the code's
_calculate_adaptive_multiplier_unscaled(behavior, endpoint_category, tenant_id, sample, metrics_ok) ==
    LET load_level == get_load_level(IF metrics_ok THEN sample ELSE DefaultLoad)
        base_multiplier == load_multipliers[load_level]
        category_multiplier ==
            IF endpoint_category \in DOMAIN category_adjustments
            THEN category_adjustments[endpoint_category] ELSE 10
        tenant_multiplier ==
            _get_tenant_behavior_multiplier(tenant_id, BehaviorOf(behavior, tenant_id))
        final_multiplier == base_multiplier * category_multiplier * tenant_multiplier
    IN  <<final_multiplier, 100>>

\* the final multiplier as a rate in thousandths, kept in [0.1, 2.0]
_calculate_adaptive_multiplier(behavior, endpoint_category, tenant_id, sample, metrics_ok) ==
    LET load_level == get_load_level(IF metrics_ok THEN sample ELSE DefaultLoad)
        base_multiplier == load_multipliers[load_level]
        category_multiplier ==
            IF endpoint_category \in DOMAIN category_adjustments
            THEN category_adjustments[endpoint_category] ELSE 10
        tenant_multiplier ==
            _get_tenant_behavior_multiplier(tenant_id, BehaviorOf(behavior, tenant_id))
        final_multiplier == base_multiplier * category_multiplier * tenant_multiplier
    IN  <<Max(100, Min(2000, final_multiplier)), 1000>>

\* int(base * multiplier), for a multiplier that is a rate
Scaled(base, multiplier) == (base * multiplier[1]) \div multiplier[2]

\* the breaker is consulted before the whitelist: the short-circuit
\* property must tell this from the code's
calculate_dynamic_limits_breaker_first(table, store, subscription_plan, endpoint_category, tenant_id, endpoint, sample, metrics_ok) ==
    LET breaker == _should_apply_circuit_breaker(store, endpoint, metrics_ok)
    IN  IF breaker.blocked
        THEN [requests_per_minute |-> 0, burst_capacity |-> 0,
              concurrent_requests |-> 0, circuit |-> breaker.circuit,
              raised |-> "none"]
        ELSE IF _is_endpoint_whitelisted(endpoint)
        THEN [requests_per_minute |-> 10000, burst_capacity |-> 1000,
              concurrent_requests |-> 500, circuit |-> breaker.circuit,
              raised |-> "none"]
        ELSE IF subscription_plan \notin DOMAIN table
        THEN [requests_per_minute |-> 0, burst_capacity |-> 0,
              concurrent_requests |-> 0, circuit |-> breaker.circuit,
              raised |-> "KeyError"]
        ELSE [requests_per_minute |-> 1, burst_capacity |-> 1,
              concurrent_requests |-> 1, circuit |-> breaker.circuit,
              raised |-> "none"]

\* the limits for a request and the breakers as the call leaves them;
\* SUBSCRIPTION_LIMITS[subscription_plan] raises KeyError for a plan that is
\* not one of its keys
calculate_dynamic_limits(table, store, subscription_plan, endpoint_category, tenant_id, endpoint, sample, metrics_ok) ==
    IF _is_endpoint_whitelisted(endpoint)
    THEN [requests_per_minute |-> 10000, burst_capacity |-> 1000,
          concurrent_requests |-> 500, circuit |-> store, raised |-> "none"]
    ELSE IF subscription_plan \notin DOMAIN table
    THEN [requests_per_minute |-> 0, burst_capacity |-> 0,
          concurrent_requests |-> 0, circuit |-> store, raised |-> "KeyError"]
    ELSE LET base_config == table[subscription_plan]
             breaker == _should_apply_circuit_breaker(store, endpoint, metrics_ok)
             adaptive == _calculate_adaptive_multiplier(TenantBehavior,
                             endpoint_category, tenant_id, sample, metrics_ok)
             multiplier == IF _is_endpoint_blacklisted(endpoint)
                           THEN <<adaptive[1] * 5, adaptive[2] * 10>>
                           ELSE adaptive
             base_rpm == IF endpoint_category = "expensive"
                         THEN base_config.expensive_endpoints_rpm
                         ELSE IF endpoint_category = "auth"
                         THEN base_config.auth_endpoints_rpm
                         ELSE base_config.standard_endpoints_rpm
         IN  IF breaker.blocked
             THEN [requests_per_minute |-> 0, burst_capacity |-> 0,
                   concurrent_requests |-> 0, circuit |-> breaker.circuit,
                   raised |-> "none"]
             ELSE [requests_per_minute |-> Max(1, Scaled(base_rpm, multiplier)),
                   burst_capacity |->
                       Max(1, Scaled(base_config.burst_capacity,
                                     <<multiplier[1] * burst_multiplier[1],
                                       multiplier[2] * burst_multiplier[2]>>)),
                   concurrent_requests |->
                       Max(1, Scaled(base_config.concurrent_requests, multiplier)),
                   circuit |-> breaker.circuit, raised |-> "none"]

\* enhanced_check_rate_limit: the dynamic limits are written into the
\* plan's RateLimitConfig, then the original check runs; an exception of
\* calculate_dynamic_limits leaves the call before anything is written
enhanced_check_rate_limit(st, table, store, client_id, tenant_id, subscription_plan, endpoint, sample, metrics_ok) ==
    LET endpoint_category == _get_endpoint_category(endpoint)
        dynamic_limits == calculate_dynamic_limits(table, store, subscription_plan,
                              endpoint_category, tenant_id, endpoint, sample,
                              metrics_ok)
        original_config == _get_rate_limit_config(table, subscription_plan)
        with_rpm ==
            IF endpoint_category = "expensive"
            THEN [original_config EXCEPT !.expensive_endpoints_rpm =
                                             dynamic_limits.requests_per_minute]
            ELSE IF endpoint_category = "auth"
            THEN [original_config EXCEPT !.auth_endpoints_rpm =
                                             dynamic_limits.requests_per_minute]
            ELSE [original_config EXCEPT !.standard_endpoints_rpm =
                                             dynamic_limits.requests_per_minute]
        overridden == [with_rpm EXCEPT
                          !.burst_capacity = dynamic_limits.burst_capacity,
                          !.concurrent_requests = dynamic_limits.concurrent_requests]
        table1 == [table EXCEPT ![subscription_plan] = overridden]
    IN  IF dynamic_limits.raised # "none"
        THEN [limits |-> table, circuit |-> dynamic_limits.circuit,
              res |-> [NoCheck EXCEPT !.raised = dynamic_limits.raised] @@ [st |-> st]]
        ELSE [limits |-> table1, circuit |-> dynamic_limits.circuit,
              res |-> check_rate_limit(st, table1, client_id, subscription_plan,
                                       endpoint)]

\* what a check returned, as rl_last keeps it
CheckRecord(op, client_id, endpoint, res) ==
    [op |-> op, client |-> client_id, endpoint |-> endpoint,
     category |-> res.category, allowed |-> res.allowed,
     limit_exceeded |-> res.limit_exceeded, minute_count |-> res.minute_count,
     hour_count |-> res.hour_count, day_count |-> res.day_count,
     rpm_limit |-> res.rpm_limit, hour_limit |-> res.hour_limit,
     day_limit |-> res.day_limit, burst_capacity |-> res.burst_capacity,
     burst_tokens |-> res.burst_tokens,
     remaining_minute |-> res.remaining_minute,
     remaining_hour |-> res.remaining_hour, remaining_day |-> res.remaining_day,
     raised |-> res.raised]

ThrottleInit ==
    /\ now = 0
    /\ AuthQuiet
    /\ CallersQuiet
    /\ ShadowQuiet
    /\ rl_redis \in BOOLEAN
    /\ th_redis \in BOOLEAN
    /\ counters = <<>>
    /\ memory_store = <<>>
    /\ heap = <<>>
    /\ limits = SUBSCRIPTION_LIMITS
    /\ buckets = <<>>
    /\ rl_last = NoCheck
    /\ rl_win = [c \in Clients |-> NoWindow]
    /\ requests = [e \in Endpoints |-> 0]
    /\ ticks = 0
    /\ circuit = <<>>
    /\ metrics = NoMetrics
    /\ endpoint_metrics = [e \in CBEndpoints |-> [requests |-> 0, errors |-> 0]]
    /\ cb_last = NoCircuitOp
    /\ probes = [e \in CBEndpoints |-> 0]
    /\ cb_steps = [records |-> 0, errors |-> 0, calls |-> 0, resets |-> 0, ticks |-> 0]

\* one request goes through rate_limiter.check_rate_limit as the import of
\* advanced_throttling has replaced it
EnhancedCheckRateLimit(client_id, endpoint, sample, metrics_ok) ==
    /\ SumOver(requests, Endpoints) < MaxThRequests
    /\ requests' = [requests EXCEPT ![endpoint] = @ + 1]
    /\ \E call \in {enhanced_check_rate_limit(RateStores, limits, circuit,
                        client_id, TenantOfClient(client_id), PlanOf(client_id),
                        endpoint, sample, metrics_ok)},
          by_itself \in {enhanced_check_rate_limit(alone.st, alone.limits, circuit,
                             client_id, TenantOfClient(client_id),
                             PlanOf(client_id), endpoint, sample, metrics_ok)} :
           /\ limits' = call.limits
           /\ circuit' = call.circuit
           /\ counters' = call.res.st.counters
           /\ memory_store' = call.res.st.memory_store
           /\ heap' = call.res.st.heap
           /\ buckets' = call.res.st.buckets
           /\ rl_last' = CheckRecord("enhanced_check_rate_limit", client_id,
                                     endpoint, call.res)
           /\ alone' = IF client_id = Observed
                       THEN [limits |-> by_itself.limits, st |-> by_itself.res.st,
                             last |-> CheckRecord("enhanced_check_rate_limit",
                                                  client_id, endpoint, by_itself.res)]
                       ELSE alone
    /\ UNCHANGED <<now, authVars, rl_redis, pc, loc, returned, dup_return,
                   completed, rl_win, ticks, th_redis, metrics, endpoint_metrics,
                   cb_last, probes, cb_steps>>

ThrottleNext ==
    \/ \E c \in ThClients, e \in Endpoints, m \in LoadSamples, ok \in BOOLEAN :
          EnhancedCheckRateLimit(c, e, m, ok)
    \/ \E r \in Recorded : RecordRequestMetrics(r[1], r[2])

SpecThrottle == ThrottleInit /\ [][ThrottleNext]_vars

\* C9: the limits applied to, and the decision for, a request of a client
\* are those it would get had no other client made a request: they depend
\* on the client's own counters and bucket, its plan and the system load.
C9_TenantIsolation ==
    (rl_last.op = "enhanced_check_rate_limit" /\ rl_last.client = Observed)
    => /\ rl_last.rpm_limit = alone.last.rpm_limit
       /\ rl_last.burst_capacity = alone.last.burst_capacity
       /\ rl_last.allowed = alone.last.allowed

\* C10: after any sequence of rate-limit checks, also through
\* enhanced_check_rate_limit, every RateLimitConfig in SUBSCRIPTION_LIMITS
\* holds the values it was defined with.
C10_PlanConfigImmutable ==
    limits = SUBSCRIPTION_LIMITS

----------------------------------------------------------------------------
(* calculate_dynamic_limits called on its own, as get_intelligent_rate_limits *)
(* does                                                                    *)

\* the plans the calls carry: one SUBSCRIPTION_LIMITS has and one it has not
DynPlans == {"starter", "trial"}

\* a whitelisted endpoint and one with a breaker
DynEndpoints == { <<"health">>, <<"api", "courses">> }

\* the whitelisted ones among them, by the patterns of ThrottleConfig
DynWhitelisted == { <<"health">> }

UnlimitedQuotas == <<10000, 1000, 500>>

ZeroQuotas == <<0, 0, 0>>

\* one call of calculate_dynamic_limits, from entry to return or raise
CalculateDynamicLimits(subscription_plan, endpoint, sample, metrics_ok) ==
    /\ cb_steps.calls < MaxCBCalls
    /\ cb_steps' = [cb_steps EXCEPT !.calls = @ + 1]
    /\ \E res \in {calculate_dynamic_limits(SUBSCRIPTION_LIMITS, circuit,
                       subscription_plan, _get_endpoint_category(endpoint), "t1",
                       endpoint, sample, metrics_ok)} :
          LET before == CBState(endpoint)
              after == IF CircuitLive(res.circuit, endpoint)
                       THEN res.circuit[endpoint].state ELSE "closed"
          IN  /\ circuit' = res.circuit
              /\ cb_last' =
                   [NoCircuitOp EXCEPT
                      !.op = "calculate_dynamic_limits", !.endpoint = endpoint,
                      !.before = before, !.after = after,
                      !.blocked = (res.raised = "none"
                                   /\ res.requests_per_minute = 0),
                      !.cooled = /\ before = "open"
                                 /\ now - circuit[endpoint].open_time
                                      > circuit_breaker_duration,
                      !.metrics_ok = metrics_ok,
                      !.plan = subscription_plan,
                      !.whitelisted = (endpoint \in DynWhitelisted),
                      !.quotas = <<res.requests_per_minute, res.burst_capacity,
                                   res.concurrent_requests>>,
                      !.raised = res.raised,
                      !.untouched = (res.circuit = circuit)]
              /\ probes' = [e \in CBEndpoints |->
                              IF e # endpoint THEN probes[e]
                              ELSE IF after = "half_open" /\ res.raised = "none"
                              THEN probes[e] + 1 ELSE 0]
    /\ UNCHANGED <<now, authVars, incrVars, rateVars, shadowVars, th_redis, metrics,
                   endpoint_metrics>>

DynNext ==
    \/ \E r \in Recorded : RecordRequestMetrics(r[1], r[2])
    \/ \E p \in DynPlans, e \in DynEndpoints, m \in LoadSamples, ok \in BOOLEAN :
          CalculateDynamicLimits(p, e, m, ok)
    \/ \E d \in CBSteps : CBAdvance(d)

SpecDyn == CBInit /\ [][DynNext]_vars

----------------------------------------------------------------------------
(* _calculate_adaptive_multiplier over the loads, categories and tenant    *)
(* behaviours it may meet                                                  *)

\* calls of _calculate_adaptive_multiplier
MaxMultCalls == 2

\* a sample for each load level
MultSamples == LoadSamples \cup { [cpu_percent |-> 80, memory_percent |-> 50] }

\* the categories with an adjustment and one without
MultCategories == {"expensive", "standard", "auth", "admin", "other"}

\* a tenant and no tenant
MultTenants == {"t1", ""}

\* a tenant_behavior hash for each branch of _get_tenant_behavior_multiplier:
\* good, poor by its errors, poor by its abuse score, neither
BehaviorHashes ==
    { [avg_response_time |-> 100, error_rate |-> <<0, 1>>, abuse_score |-> <<0, 1>>],
      [avg_response_time |-> 100, error_rate |-> <<1, 10>>, abuse_score |-> <<0, 1>>],
      [avg_response_time |-> 100, error_rate |-> <<0, 1>>, abuse_score |-> <<6, 10>>],
      [avg_response_time |-> 300, error_rate |-> <<3, 100>>, abuse_score |-> <<2, 10>>] }

\* the hashes Redis may hold for the tenant: none, or one written from
\* outside the engine
BehaviorStores == {<<>>} \cup { [t \in {"t1"} |-> h] : h \in BehaviorHashes }

MultInit ==
    /\ CBInit
    /\ th_redis \in BOOLEAN

\* one call of _calculate_adaptive_multiplier
CalculateAdaptiveMultiplier(behavior, endpoint_category, tenant_id, sample, metrics_ok) ==
    /\ cb_steps.calls < MaxMultCalls
    /\ cb_steps' = [cb_steps EXCEPT !.calls = @ + 1]
    /\ cb_last' =
         [NoCircuitOp EXCEPT
            !.op = "_calculate_adaptive_multiplier",
            !.category = endpoint_category,
            !.load_level = get_load_level(IF metrics_ok THEN sample ELSE DefaultLoad),
            !.metrics_ok = metrics_ok,
            !.tenant_multiplier =
                _get_tenant_behavior_multiplier(tenant_id,
                                                BehaviorOf(behavior, tenant_id)),
            !.multiplier = _calculate_adaptive_multiplier(behavior, endpoint_category,
                                                          tenant_id, sample, metrics_ok)]
    /\ UNCHANGED <<now, authVars, incrVars, rateVars, shadowVars, th_redis, circuit,
                   metrics, endpoint_metrics, probes>>

MultNext ==
    \E b \in BehaviorStores, c \in MultCategories, t \in MultTenants,
       m \in MultSamples, ok \in BOOLEAN :
        CalculateAdaptiveMultiplier(b, c, t, m, ok)

SpecMult == MultInit /\ [][MultNext]_vars

\* C18: for every load level, endpoint category and tenant behaviour
\* multiplier, the value _calculate_adaptive_multiplier returns lies in
\* [0.1, 2.0], both ends included.
C18_MultiplierBounds ==
    (cb_last.op = "_calculate_adaptive_multiplier")
    => /\ ~RateAbove(<<1, 10>>, cb_last.multiplier)
       /\ ~RateAbove(cb_last.multiplier, <<2, 1>>)

\* C23: when collecting the system metrics raises, or the metrics backend
\* does while the tenant's behaviour is read, the multiplier
\* _calculate_adaptive_multiplier returns is exactly 1.0, for every
\* endpoint category.
C23_NeutralMultiplierOnFailure ==
    ( /\ cb_last.op = "_calculate_adaptive_multiplier"
      /\ ~cb_last.metrics_ok
      /\ cb_last.tenant_multiplier = 10 )
    => cb_last.multiplier[1] = cb_last.multiplier[2]

\* the smallest product: critical load, an expensive endpoint and a tenant
\* with the penalty, 0.3 * 0.8 * 0.7
C18_Witness ==
    /\ cb_last.op = "_calculate_adaptive_multiplier"
    /\ cb_last.load_level = "critical"
    /\ cb_last.category = "expensive"
    /\ cb_last.tenant_multiplier = 7
    /\ cb_last.multiplier = <<168, 1000>>

----------------------------------------------------------------------------
(* _get_tenant_behavior_multiplier after requests of the tenant have been  *)
(* recorded                                                                *)

\* calls of _get_tenant_behavior_multiplier
MaxBehaviorCalls == 2

\* the tenant whose requests record_request_metrics is called with
RecordedTenant == "t1"

\* one call of _get_tenant_behavior_multiplier for the recorded tenant
GetTenantBehaviorMultiplier ==
    /\ cb_steps.calls < MaxBehaviorCalls
    /\ cb_steps' = [cb_steps EXCEPT !.calls = @ + 1]
    /\ cb_last' =
         [NoCircuitOp EXCEPT
            !.op = "_get_tenant_behavior_multiplier",
            !.tenant_multiplier =
                _get_tenant_behavior_multiplier(RecordedTenant,
                    BehaviorOf(TenantBehavior, RecordedTenant)),
            !.tenant_requests = metrics.behavior_requests,
            !.tenant_rate = IF metrics.behavior_requests > 0
                            THEN <<metrics.behavior_errors, metrics.behavior_requests>>
                            ELSE <<0, 1>>]
    /\ UNCHANGED <<now, authVars, incrVars, rateVars, shadowVars, th_redis, circuit,
                   metrics, endpoint_metrics, probes>>

BehaviorNext ==
    \/ \E r \in Recorded : RecordRequestMetrics(r[1], r[2])
    \/ GetTenantBehaviorMultiplier
    \/ \E d \in CBSteps : CBAdvance(d)

SpecBehavior == CBInit /\ [][BehaviorNext]_vars

\* C24: after record_request_metrics has recorded a tenant's requests,
\* each answered within 200 ms, _get_tenant_behavior_multiplier returns 0.7
\* when the tenant's recorded error rate is above 5%, 1.2 when it is below
\* 1%, and 1.0 otherwise.
C24_BehaviorFollowsTraffic ==
    ( /\ cb_last.op = "_get_tenant_behavior_multiplier"
      /\ cb_last.tenant_requests > 0 )
    => cb_last.tenant_multiplier =
         IF RateAbove(cb_last.tenant_rate, <<5, 100>>) THEN 7
         ELSE IF RateAbove(<<1, 100>>, cb_last.tenant_rate) THEN 12
         ELSE 10

----------------------------------------------------------------------------
(* SystemMetrics.get_load_level over whole percentages                     *)

\* calls of get_load_level
MaxLoadCalls == 1

\* the cpu and memory percentages a sample may hold
Percentages == 0..100

\* one call of get_load_level on a sample
GetLoadLevel(cpu, mem) ==
    /\ cb_steps.calls < MaxLoadCalls
    /\ cb_steps' = [cb_steps EXCEPT !.calls = @ + 1]
    /\ cb_last' =
         [NoCircuitOp EXCEPT
            !.op = "get_load_level",
            !.sample = [cpu_percent |-> cpu, memory_percent |-> mem],
            !.load_level = get_load_level([cpu_percent |-> cpu,
                                           memory_percent |-> mem])]
    /\ UNCHANGED <<now, authVars, incrVars, rateVars, shadowVars, th_redis, circuit,
                   metrics, endpoint_metrics, probes>>

LoadNext == \E cpu \in Percentages, mem \in Percentages : GetLoadLevel(cpu, mem)

SpecLoad == CBInit /\ [][LoadNext]_vars

\* C25: for every whole cpu and memory percentage in 0..100, get_load_level
\* returns low iff cpu < 30 and mem < 50; otherwise medium iff cpu < 70 and
\* mem < 80; otherwise high iff cpu < 90 and mem < 95; otherwise critical,
\* also at the values 30, 50, 70, 80, 90 and 95.
C25_LoadLevelThresholds ==
    (cb_last.op = "get_load_level")
    => LET cpu == cb_last.sample.cpu_percent
           mem == cb_last.sample.memory_percent
       IN  cb_last.load_level =
             IF cpu < 30 /\ mem < 50 THEN "low"
             ELSE IF cpu < 70 /\ mem < 80 THEN "medium"
             ELSE IF cpu < 90 /\ mem < 95 THEN "high"
             ELSE "critical"

----------------------------------------------------------------------------
(* check_rate_limit run by two requests of one client at a time: each      *)
(* Redis command is a step of its own                                      *)

\* what the client has done before the two requests: its requests to the
\* tested endpoint this minute, one below the ceiling or at it, and the
\* tokens left in its bucket (-1: no bucket)
BurstPrior ==
    { [minute |-> m, hour |-> 100, day |-> 100, tokens |-> t] :
        m \in {9, 10}, t \in {-1, 0, 1, 2} }

BurstClient == PriorClient

BucketKey == <<"burst_bucket", BurstClient>>

\* the local variables of a check that has not started
NoLocals ==
    [calls |-> 0, minute_count |-> 0, hour_count |-> 0, day_count |-> 0,
     start_tokens |-> -1, read |-> [tokens |-> 0, last_refill |-> 0],
     burst_tokens |-> 0, rescued |-> FALSE, consumed |-> FALSE,
     allowed |-> TRUE, limit_exceeded |-> "none"]

\* config and rpm_limit of the requests: the client's plan, the tested
\* endpoint's category
BurstConfig == _get_rate_limit_config(limits, PlanOf(BurstClient))

BurstRpmLimit ==
    LET endpoint_category == _get_endpoint_category(TestedEndpoint)
    IN  IF endpoint_category = "expensive" THEN BurstConfig.expensive_endpoints_rpm
        ELSE IF endpoint_category = "auth" THEN BurstConfig.auth_endpoints_rpm
        ELSE BurstConfig.standard_endpoints_rpm

BurstInit ==
    /\ now = 0
    /\ AuthQuiet
    /\ CBQuiet
    /\ ShadowQuiet
    /\ rl_redis = TRUE
    /\ \E prior \in BurstPrior :
          /\ counters = PriorStores(prior).counters
          /\ memory_store = PriorStores(prior).memory_store
          /\ heap = PriorStores(prior).heap
          /\ buckets = PriorStores(prior).buckets
    /\ pc = [c \in Callers |-> "idle"]
    /\ loc = [c \in Callers |-> NoLocals]
    /\ returned = {}
    /\ dup_return = FALSE
    /\ completed = 0
    /\ limits = SUBSCRIPTION_LIMITS
    /\ rl_last = NoCheck
    /\ rl_win = [c \in Clients |-> NoWindow]
    /\ requests = [e \in Endpoints |-> 0]
    /\ ticks = 0

\* the decision of check_rate_limit on its local values, once the bucket
\* calls are over
Decided(l, consumed) ==
    LET over_minute == l.minute_count > BurstRpmLimit
        over_hour == l.hour_count > BurstConfig.requests_per_hour
        over_day == l.day_count > BurstConfig.requests_per_day
    IN  [l EXCEPT
           !.consumed = consumed,
           !.rescued = over_minute /\ l.burst_tokens > 0,
           !.allowed = /\ ~(over_minute /\ l.burst_tokens <= 0)
                       /\ ~over_hour /\ ~over_day,
           !.limit_exceeded = IF over_day THEN "day"
                              ELSE IF over_hour THEN "hour"
                              ELSE IF over_minute /\ l.burst_tokens <= 0
                              THEN "minute"
                              ELSE "none"]

\* _get_burst_tokens has returned: on to _consume_burst_token when the
\* request is over the minute ceiling and a token was seen, else to the end
AfterBurstTokens(c, l) ==
    IF l.minute_count > BurstRpmLimit /\ l.burst_tokens > 0
    THEN /\ pc' = [pc EXCEPT ![c] = "hget"]
         /\ loc' = [loc EXCEPT ![c] = l]
         /\ UNCHANGED completed
    ELSE /\ pc' = [pc EXCEPT ![c] = "done"]
         /\ loc' = [loc EXCEPT ![c] = Decided(l, FALSE)]
         /\ completed' = completed + 1

\* a request enters check_rate_limit: the three counters are incremented,
\* each by a pipeline Redis runs as one
BurstEnter(c) ==
    /\ pc[c] = "idle"
    /\ LET minute == _increment_counter(RateStores,
                         _get_redis_key(BurstClient, "minute", TestedEndpoint), 60)
           hour == _increment_counter(minute.st,
                         _get_redis_key(BurstClient, "hour", <<>>), 3600)
           day == _increment_counter(hour.st,
                         _get_redis_key(BurstClient, "day", <<>>), 86400)
       IN  /\ counters' = day.st.counters
           /\ loc' = [loc EXCEPT ![c] =
                        [@ EXCEPT !.calls = 1,
                                  !.minute_count = minute.value,
                                  !.hour_count = hour.value,
                                  !.day_count = day.value,
                                  !.start_tokens = BucketTokens(buckets, BurstClient)]]
    /\ pc' = [pc EXCEPT ![c] = "hgetall"]
    /\ UNCHANGED <<now, authVars, rateVars, cbVars, shadowVars, rl_redis,
                   memory_store, heap, returned, dup_return, completed>>

\* _get_burst_tokens: hgetall(bucket_key)
GetBurstTokensRead(c) ==
    /\ pc[c] = "hgetall"
    /\ IF RedisLive(buckets, BucketKey)
       THEN /\ loc' = [loc EXCEPT ![c].read =
                         [tokens |-> buckets[BucketKey].tokens,
                          last_refill |-> buckets[BucketKey].last_refill]]
            /\ pc' = [pc EXCEPT ![c] = "refill"]
       ELSE /\ pc' = [pc EXCEPT ![c] = "initialize"]
            /\ UNCHANGED loc
    /\ UNCHANGED <<now, authVars, rateVars, cbVars, shadowVars, rl_redis, counters,
                   memory_store, heap, returned, dup_return, completed>>

\* _get_burst_tokens: no bucket was read, hset and expire make a full one
GetBurstTokensInit(c) ==
    /\ pc[c] = "initialize"
    /\ buckets' = [k \in DOMAIN buckets \cup {BucketKey} |->
                     IF k = BucketKey
                     THEN [tokens |-> BurstConfig.burst_capacity,
                           last_refill |-> now, expires_at |-> now + 3600]
                     ELSE buckets[k]]
    /\ AfterBurstTokens(c, [loc[c] EXCEPT !.burst_tokens = BurstConfig.burst_capacity])
    /\ UNCHANGED <<now, authVars, cbVars, shadowVars, rl_redis, counters,
                   memory_store, heap, returned, dup_return, limits, rl_last,
                   rl_win, requests, ticks>>

\* _get_burst_tokens: the bucket read is refilled and written back; no
\* bucket outlives its time to live within the clock readings here
GetBurstTokensRefill(c) ==
    /\ pc[c] = "refill"
    /\ LET tokens == Min(BurstConfig.burst_capacity,
                         loc[c].read.tokens
                           + tokens_to_add(loc[c].read.last_refill, BurstConfig))
       IN  /\ buckets' = [buckets EXCEPT ![BucketKey] =
                            [@ EXCEPT !.tokens = tokens, !.last_refill = now]]
           /\ AfterBurstTokens(c, [loc[c] EXCEPT !.burst_tokens = tokens])
    /\ UNCHANGED <<now, authVars, cbVars, shadowVars, rl_redis, counters,
                   memory_store, heap, returned, dup_return, limits, rl_last,
                   rl_win, requests, ticks>>

\* _consume_burst_token: hget(bucket_key, 'tokens'); its result is not used
\* by check_rate_limit
ConsumeBurstTokenRead(c) ==
    /\ pc[c] = "hget"
    /\ IF RedisLive(buckets, BucketKey) /\ buckets[BucketKey].tokens > 0
       THEN /\ pc' = [pc EXCEPT ![c] = "hincrby"]
            /\ UNCHANGED <<loc, completed>>
       ELSE /\ pc' = [pc EXCEPT ![c] = "done"]
            /\ loc' = [loc EXCEPT ![c] = Decided(@, FALSE)]
            /\ completed' = completed + 1
    /\ UNCHANGED <<now, authVars, rateVars, cbVars, shadowVars, rl_redis, counters,
                   memory_store, heap, returned, dup_return>>

\* _consume_burst_token: hincrby(bucket_key, 'tokens', -1)
ConsumeBurstTokenWrite(c) ==
    /\ pc[c] = "hincrby"
    /\ buckets' = [buckets EXCEPT ![BucketKey].tokens = @ - 1]
    /\ pc' = [pc EXCEPT ![c] = "done"]
    /\ loc' = [loc EXCEPT ![c] = Decided(@, TRUE)]
    /\ completed' = completed + 1
    /\ UNCHANGED <<now, authVars, cbVars, shadowVars, rl_redis, counters,
                   memory_store, heap, returned, dup_return, limits, rl_last,
                   rl_win, requests, ticks>>

\* a second passes
BurstAdvance ==
    /\ ticks < MaxTicks
    /\ now' = now + 1
    /\ ticks' = ticks + 1
    /\ UNCHANGED <<authVars, incrVars, cbVars, shadowVars, limits, buckets, rl_last,
                   rl_win, requests>>

BurstNext ==
    \/ \E c \in Callers : BurstEnter(c)
    \/ \E c \in Callers : GetBurstTokensRead(c)
    \/ \E c \in Callers : GetBurstTokensInit(c)
    \/ \E c \in Callers : GetBurstTokensRefill(c)
    \/ \E c \in Callers : ConsumeBurstTokenRead(c)
    \/ \E c \in Callers : ConsumeBurstTokenWrite(c)
    \/ BurstAdvance

SpecBurst == BurstInit /\ [][BurstNext]_vars

\* C19: when the client's bucket holds exactly one token and two of its
\* requests, both over the minute ceiling, run check_rate_limit at the same
\* time, at most one of them is allowed by burst rescue; the other is denied
\* with limit 'minute'.
C19_LastBurstToken ==
    (/\ \A c \in Callers : /\ pc[c] = "done"
                           /\ loc[c].start_tokens = 1
                           /\ loc[c].minute_count > BurstRpmLimit
     /\ ticks = 0)
    => /\ Cardinality({c \in Callers : loc[c].allowed}) <= 1
       /\ \E c \in Callers : ~loc[c].allowed /\ loc[c].limit_exceeded = "minute"

\* C20: in every reachable state, under any interleaving of
\* check_rate_limit calls, the tokens stored in a client's burst bucket are
\* at least 0 and at most burst_capacity.
C20_BucketBounds ==
    \A k \in DOMAIN buckets :
        RedisLive(buckets, k)
        => (0 <= buckets[k].tokens /\ buckets[k].tokens <= BurstConfig.burst_capacity)

----------------------------------------------------------------------------
(* The HTTP routes of auth_routes.py with their dependencies, and a view   *)
(* under the rate_limit decorator of rate_limiting_middleware.py           *)

\* route calls the model follows per minute window, and decorated calls
MaxLogins == 12

MaxDecorated == 2

\* the bodies POST /auth/login is called with
LoginRequests == { <<"e1", "pw1", NoDomain>>, <<"e1", "wrong", NoDomain>> }

\* the status HTTPBearer answers with when the request carries no
\* Authorization header: 403, or 401 from later versions of the framework
NotAuthenticated == {401, 403}

\* the address the requests come from
ClientIp == "ip:10.0.0.1"

\* RateLimiter.check_rate_limit of auth_middleware: allowed, remaining and
\* the keys it leaves; a Redis call that raises is caught and allows
RateLimiter_check_rate_limit(store, key, limit, window_seconds) ==
    IF ~redis_client \/ ~redis_reachable
    THEN [allowed |-> TRUE, remaining |-> limit, store |-> store]
    ELSE IF ~RedisLive(store, key)
    THEN [allowed |-> TRUE, remaining |-> limit - 1,
          store |-> [k \in DOMAIN store \cup {key} |->
                        IF k = key
                        THEN [count |-> 1, expires_at |-> now + window_seconds]
                        ELSE store[k]]]
    ELSE IF store[key].count >= limit
    THEN [allowed |-> FALSE, remaining |-> 0, store |-> store]
    ELSE [allowed |-> TRUE, remaining |-> limit - store[key].count - 1,
          store |-> [store EXCEPT ![key].count = @ + 1]]

\* rate_limit_dependency of rate_limit(requests_per_minute), entered with
\* the claims get_current_user returned: 429 when the check denies
rate_limit_dependency(store, current_user, requests_per_minute) ==
    LET rate_key == <<"rate_limit", current_user.tenant_id, current_user.user_id,
                      now \div 60>>
        checked == RateLimiter_check_rate_limit(store, rate_key,
                                                requests_per_minute, 60)
    IN  [status |-> IF checked.allowed THEN 200 ELSE 429,
         remaining |-> checked.remaining, store |-> checked.store]

\* whether a login body names a user of an active tenant with its password
CorrectCredentials(email, password) ==
    \E u \in UsersTable :
        /\ u.email = email
        /\ _verify_password(password, u.password_hash)
        /\ u.institution_id \in DOMAIN institutions
        /\ institutions[u.institution_id].is_active

\* the count of calls of /auth/login in the current minute window, this
\* call included
LoginsAfter == IF http_req.login_window = now \div 60 THEN http_req.login_n + 1 ELSE 1

Response(route, status, detail, credentials) ==
    [NoResponse EXCEPT !.route = route, !.status = status, !.detail = detail,
                       !.had_token = (credentials # NoToken),
                       !.token_user = credentials.user_id]

\* POST /auth/login up to the handler: HTTPBearer, get_current_user and the
\* rate_limit(10) dependency; a dependency that raises ends the request
LoginDependencies(credentials, email, password, tenant_domain) ==
    /\ http_req.stage = "idle"
    /\ LoginsAfter <= MaxLogins
    /\ \E v \in {verify_token(credentials)},
          limited \in {rate_limit_dependency(auth_rl, credentials, 10)},
          refused \in NotAuthenticated :
          LET counted == [http_req EXCEPT !.login_window = now \div 60,
                                          !.login_n = LoginsAfter]
              answer(status, detail) ==
                  [Response("login", status, detail, credentials) EXCEPT
                      !.login_n = LoginsAfter,
                      !.correct = CorrectCredentials(email, password)]
          IN  IF credentials = NoToken
              THEN /\ http_last' = answer(refused, "Not authenticated")
                   /\ http_req' = counted
                   /\ UNCHANGED <<session_store, tenant_cache, auth_rl>>
              ELSE IF v.detail # "ok"
              THEN /\ http_last' = answer(401, v.detail)
                   /\ http_req' = counted
                   /\ session_store' = v.sessions
                   /\ tenant_cache' = v.cache
                   /\ UNCHANGED auth_rl
              ELSE /\ session_store' = v.sessions
                   /\ tenant_cache' = v.cache
                   /\ auth_rl' = limited.store
                   /\ IF limited.status = 429
                      THEN /\ http_last' = [answer(429, "Rate limit exceeded") EXCEPT
                                               !.verified = TRUE, !.counted = TRUE]
                           /\ http_req' = counted
                      ELSE /\ http_req' = [counted EXCEPT
                                              !.stage = "login", !.email = email,
                                              !.password = password,
                                              !.tenant_domain = tenant_domain]
                           /\ http_last' =
                                [answer(0, "none") EXCEPT
                                    !.route = "login_dependencies",
                                    !.verified = TRUE, !.counted = TRUE]
    /\ UNCHANGED <<nonAuthVars, now, redis_client, redis_reachable, institutions,
                   issued, auth_last, logged_out, first_fail>>

\* POST /auth/login, the handler: authenticate_user, then 401 or the
\* LoginResponse (the tenant config it reads is the cached one)
Login ==
    /\ http_req.stage = "login"
    /\ \E r \in {authenticate_user(http_req.email, http_req.password,
                                   http_req.tenant_domain)} :
          /\ r.success => Cardinality(issued) < MaxSessions
          /\ session_store' = r.sessions
          /\ tenant_cache' = r.cache
          /\ issued' = IF r.success THEN issued \cup {r.token} ELSE issued
          /\ http_last' =
               [http_last EXCEPT
                   !.route = "login",
                   !.status = IF r.success THEN 200 ELSE 401,
                   !.detail = IF r.success THEN "none" ELSE login_detail(r),
                   !.user_id = r.token.user_id,
                   !.access_token = r.token,
                   !.refresh_token = r.success]
    /\ http_req' = [http_req EXCEPT !.stage = "idle", !.email = "none",
                                    !.password = "none",
                                    !.tenant_domain = NoDomain]
    /\ UNCHANGED <<nonAuthVars, now, redis_client, redis_reachable, institutions,
                   auth_last, logged_out, first_fail, auth_rl>>

\* GET /auth/me: HTTPBearer, get_current_user, get_current_tenant, then the
\* handler returns the claims' user id
GetCurrentUserInfo(credentials) ==
    /\ http_req.stage = "idle"
    /\ \E v \in {verify_token(credentials)}, refused \in NotAuthenticated :
          LET tenant == get_tenant_config(v.cache, credentials.tenant_id)
              answer(status, detail) ==
                  [Response("me", status, detail, credentials) EXCEPT
                      !.fresh = (credentials.iat = now /\ credentials \in issued),
                      !.correct = /\ credentials.tenant_id \in DOMAIN institutions
                                  /\ institutions[credentials.tenant_id].is_active
                                  /\ (~redis_client \/ redis_reachable)]
          IN  IF credentials = NoToken
              THEN /\ http_last' = answer(refused, "Not authenticated")
                   /\ UNCHANGED <<session_store, tenant_cache>>
              ELSE IF v.detail # "ok"
              THEN /\ http_last' = answer(401, v.detail)
                   /\ session_store' = v.sessions
                   /\ tenant_cache' = v.cache
              ELSE /\ session_store' = v.sessions
                   /\ tenant_cache' = tenant.cache
                   /\ http_last' =
                        IF tenant.config.found
                        THEN [answer(200, "none") EXCEPT
                                 !.verified = TRUE,
                                 !.user_id = credentials.user_id]
                        ELSE [answer(404, "Tenant not found") EXCEPT
                                 !.verified = TRUE]
    /\ UNCHANGED <<nonAuthVars, now, redis_client, redis_reachable, institutions,
                   issued, auth_last, logged_out, first_fail, auth_rl, http_req>>

\* a view under @rate_limit() of rate_limiting_middleware (sync_wrapper):
\* nothing has put a user on g, so the check is keyed by the address; the
\* request's credentials are not looked at
DecoratedView(credentials, endpoint) ==
    /\ http_req.stage = "idle"
    /\ http_req.decorated < MaxDecorated
    /\ http_req' = [http_req EXCEPT !.decorated = @ + 1]
    /\ \E res \in {check_rate_limit(RateStores, limits, ClientIp, "starter",
                                      endpoint)} :
          /\ counters' = res.st.counters
          /\ memory_store' = res.st.memory_store
          /\ heap' = res.st.heap
          /\ buckets' = res.st.buckets
          /\ http_last' =
               [Response("decorated", IF res.allowed THEN 200 ELSE 429, "none",
                         credentials) EXCEPT
                   !.counted = TRUE]
    /\ UNCHANGED <<now, cbVars, shadowVars, rl_redis, pc, loc, returned, dup_return,
                   completed, limits, rl_last, rl_win, requests, ticks,
                   redis_client, redis_reachable, session_store, institutions,
                   tenant_cache, issued, auth_last, logged_out, first_fail, auth_rl>>

\* the credentials a request may carry: none, an issued token or a forgery
Credentials == {NoToken} \cup Presentable

\* the routes within one minute window; the first tokens come from calls
\* of authenticate_user made for the service
RoutesNext ==
    \/ AuthenticateUser("e1", "pw1", NoDomain)
    \/ \E c \in Credentials, r \in LoginRequests :
          LoginDependencies(c, r[1], r[2], r[3])
    \/ Login
    \/ \E c \in Credentials : GetCurrentUserInfo(c)
    \/ \E c \in Credentials : DecoratedView(c, TestedEndpoint)
    \/ \E t \in Tenants : DeactivateTenant(t)
    \/ RedisOutage

SpecRoutes == AuthInit /\ [][RoutesNext]_vars

\* C14: no rate-limit counter is read or incremented for a request unless
\* token verification, the tenant-active check included, has succeeded for
\* that request; a request whose verification fails leaves the counters as
\* they are.
C14_AuthenticationPrecedesRateLimiting ==
    http_last.counted => http_last.verified

\* C15: POST /auth/login with correct credentials for an active tenant and
\* no prior token returns 200 with access and refresh tokens, and GET
\* /auth/me with that access token, called at once, returns 200 with the
\* user id of the logged-in user.
C15_EndToEndLogin ==
    /\ ( /\ http_last.route = "login"
         /\ ~http_last.had_token
         /\ http_last.correct )
       => ( /\ http_last.status = 200
            /\ http_last.access_token # NoToken
            /\ http_last.refresh_token )
    /\ ( /\ http_last.route = "me"
         /\ http_last.fresh
         /\ http_last.correct )
       => (http_last.status = 200 /\ http_last.user_id = http_last.token_user)

\* C16: of the calls of /auth/login inside one minute window, the first 20
\* are not answered with 429 and the 21st is.
C16_LoginThrottlingThreshold ==
    (http_last.route = "login" /\ http_last.login_n > 0)
    => /\ http_last.login_n <= 20 => http_last.status # 429
       /\ http_last.login_n = 21 => http_last.status = 429

----------------------------------------------------------------------------
(* RateLimiter.check_rate_limit of auth_middleware.py run by several       *)
(* requests at a time: each awaited Redis command is a step of its own     *)

\* calls each caller makes, and the limit the calls are made with
MaxLimiterCalls == 3

LimiterLimit == 2

\* the key of the calls: one tenant, one user, one minute window
LimiterKey == <<"rate_limit", "t1", "u1", 0>>

\* the calls of a caller that were allowed and denied, and the value its
\* call in progress has read (-1 for None)
NoLimiterLocals == [calls |-> 0, current |-> -1, allowed |-> 0, denied |-> 0]

AllowedCalls == SumOver([c \in Callers |-> loc[c].allowed], Callers)

LimiterInit ==
    /\ now = 0
    /\ redis_client = TRUE
    /\ redis_reachable = TRUE
    /\ session_store = <<>>
    /\ institutions = [t \in Tenants |-> [is_active |-> TRUE]]
    /\ tenant_cache = <<>>
    /\ issued = {}
    /\ auth_last = [op |-> "init"]
    /\ logged_out = {}
    /\ first_fail = "none"
    /\ auth_rl = <<>>
    /\ http_req = NoRequest
    /\ http_last = NoResponse
    /\ rl_redis = FALSE
    /\ counters = <<>>
    /\ memory_store = <<>>
    /\ heap = <<>>
    /\ pc = [c \in Callers |-> "idle"]
    /\ loc = [c \in Callers |-> NoLimiterLocals]
    /\ returned = {}
    /\ dup_return = FALSE
    /\ completed = 0
    /\ RateQuiet
    /\ CBQuiet
    /\ ShadowQuiet

\* current = await self.redis_client.get(key), and the branch taken on it
LimiterGet(c) ==
    /\ pc[c] = "idle"
    /\ loc[c].calls < MaxLimiterCalls
    /\ LET current == IF RedisLive(auth_rl, LimiterKey)
                      THEN auth_rl[LimiterKey].count ELSE -1
       IN  IF current = -1
           THEN /\ pc' = [pc EXCEPT ![c] = "setex"]
                /\ loc' = [loc EXCEPT ![c].calls = @ + 1, ![c].current = current]
                /\ UNCHANGED completed
           ELSE IF current >= LimiterLimit
           THEN /\ loc' = [loc EXCEPT ![c].calls = @ + 1, ![c].current = current,
                                      ![c].denied = @ + 1]
                /\ completed' = completed + 1
                /\ UNCHANGED pc
           ELSE /\ pc' = [pc EXCEPT ![c] = "incr"]
                /\ loc' = [loc EXCEPT ![c].calls = @ + 1, ![c].current = current]
                /\ UNCHANGED completed
    /\ UNCHANGED <<now, redis_client, redis_reachable, session_store, institutions,
                   tenant_cache, issued, auth_last, logged_out, first_fail, auth_rl,
                   http_req, http_last, rl_redis, counters, memory_store, heap,
                   returned, dup_return, rateVars, cbVars, shadowVars>>

\* await self.redis_client.setex(key, window_seconds, 1); return True
LimiterSetex(c) ==
    /\ pc[c] = "setex"
    /\ auth_rl' = [k \in DOMAIN auth_rl \cup {LimiterKey} |->
                     IF k = LimiterKey THEN [count |-> 1, expires_at |-> now + 60]
                     ELSE auth_rl[k]]
    /\ pc' = [pc EXCEPT ![c] = "idle"]
    /\ loc' = [loc EXCEPT ![c].allowed = @ + 1]
    /\ completed' = completed + 1
    /\ UNCHANGED <<now, redis_client, redis_reachable, session_store, institutions,
                   tenant_cache, issued, auth_last, logged_out, first_fail,
                   http_req, http_last, rl_redis, counters, memory_store, heap,
                   returned, dup_return, rateVars, cbVars, shadowVars>>

\* await self.redis_client.incr(key); return True.  The key was read as
\* present and no window ends within the calls here
LimiterIncr(c) ==
    /\ pc[c] = "incr"
    /\ auth_rl' = [auth_rl EXCEPT ![LimiterKey].count = @ + 1]
    /\ pc' = [pc EXCEPT ![c] = "idle"]
    /\ loc' = [loc EXCEPT ![c].allowed = @ + 1]
    /\ completed' = completed + 1
    /\ UNCHANGED <<now, redis_client, redis_reachable, session_store, institutions,
                   tenant_cache, issued, auth_last, logged_out, first_fail,
                   http_req, http_last, rl_redis, counters, memory_store, heap,
                   returned, dup_return, rateVars, cbVars, shadowVars>>

LimiterNext ==
    \/ \E c \in Callers : LimiterGet(c)
    \/ \E c \in Callers : LimiterSetex(c)
    \/ \E c \in Callers : LimiterIncr(c)

SpecLimiter == LimiterInit /\ [][LimiterNext]_vars

\* C26: for one key and one window, RateLimiter.check_rate_limit allows at
\* most `limit` calls under every interleaving of concurrent callers, and
\* once no call is in progress its stored counter is the number of calls
\* it allowed.
C26_PerKeyCeiling ==
    /\ AllowedCalls <= LimiterLimit
    /\ (\A c \in Callers : pc[c] = "idle")
       => AllowedCalls = IF RedisLive(auth_rl, LimiterKey)
                         THEN auth_rl[LimiterKey].count ELSE 0

----------------------------------------------------------------------------
(* POST /auth/logout next to other requests that present the same token:   *)
(* each awaited Redis command of verify_token and logout is a step         *)

\* requests each caller makes
MaxRaceRequests == 2

\* the route a request is for: one behind get_current_user only, or logout
RequestRoutes == {"me", "logout"}

NoRequestLocals == [calls |-> 0, route |-> "none", token |-> NoToken,
                    session_info |-> [user_id |-> "none"]]

LogoutInit ==
    /\ now = 0
    /\ redis_client = TRUE
    /\ redis_reachable = TRUE
    /\ session_store = <<>>
    /\ institutions = [t \in Tenants |-> [is_active |-> TRUE]]
    /\ tenant_cache = <<>>
    /\ issued = {}
    /\ auth_last = AuthOutcome("init", "none", NoToken)
    /\ logged_out = {}
    /\ first_fail = "none"
    /\ auth_rl = <<>>
    /\ http_req = NoRequest
    /\ http_last = NoResponse
    /\ rl_redis = FALSE
    /\ counters = <<>>
    /\ memory_store = <<>>
    /\ heap = <<>>
    /\ pc = [c \in Callers |-> "idle"]
    /\ loc = [c \in Callers |-> NoRequestLocals]
    /\ returned = {}
    /\ dup_return = FALSE
    /\ completed = 0
    /\ RateQuiet
    /\ CBQuiet
    /\ ShadowQuiet

\* verify_token up to session_data = await self.redis_client.get(session_key):
\* a token that does not decode and a missing session end the request with 401
SessionGet(c, token, route) ==
    /\ pc[c] = "idle"
    /\ loc[c].calls < MaxRaceRequests
    /\ IF jwt_decode(token, jwt_secret) = "none"
          /\ SessionLive(session_store, token.session_id)
       THEN /\ pc' = [pc EXCEPT ![c] = "setex"]
            /\ loc' = [loc EXCEPT ![c] = [calls |-> @.calls + 1, route |-> route,
                                          token |-> token,
                                          session_info |-> session_store[token.session_id]]]
            /\ UNCHANGED <<auth_last, completed>>
       ELSE /\ loc' = [loc EXCEPT ![c].calls = @ + 1]
            /\ auth_last' = AuthOutcome(route,
                               verify_token_except(
                                 [type |-> IF jwt_decode(token, jwt_secret) # "none"
                                           THEN jwt_decode(token, jwt_secret)
                                           ELSE "HTTPException"]), token)
            /\ completed' = completed + 1
            /\ UNCHANGED pc
    /\ UNCHANGED <<now, redis_client, redis_reachable, session_store, institutions,
                   tenant_cache, issued, logged_out, first_fail, routeVars,
                   rl_redis, counters, memory_store, heap, returned, dup_return,
                   rateVars, cbVars, shadowVars>>

\* verify_token from await self.redis_client.setex(session_key, ...) on: the
\* session read earlier is written back with its new last_activity, then the
\* tenant is looked up; the route's own code follows
SessionSetex(c) ==
    /\ pc[c] = "setex"
    /\ LET sid == loc[c].token.session_id
           got == get_tenant_config(tenant_cache, loc[c].token.tenant_id)
           active == got.config.found /\ got.config.is_active
       IN  /\ session_store' =
                 [s \in DOMAIN session_store \cup {sid} |->
                    IF s = sid
                    THEN [loc[c].session_info EXCEPT
                            !.last_activity = now,
                            !.expires_at = now + access_token_expire_minutes * 60]
                    ELSE session_store[s]]
           /\ tenant_cache' = got.cache
           /\ IF active /\ loc[c].route = "logout"
              THEN /\ pc' = [pc EXCEPT ![c] = "delete"]
                   /\ UNCHANGED <<auth_last, completed>>
              ELSE /\ pc' = [pc EXCEPT ![c] = "idle"]
                   /\ auth_last' = AuthOutcome(loc[c].route,
                                      IF active THEN "ok" ELSE "Tenant inactive",
                                      loc[c].token)
                   /\ completed' = completed + 1
    /\ UNCHANGED <<now, redis_client, redis_reachable, institutions, issued,
                   logged_out, first_fail, routeVars, loc,
                   rl_redis, counters, memory_store, heap, returned, dup_return,
                   rateVars, cbVars, shadowVars>>

\* logout: await auth_service.redis_client.delete(session_key)
SessionDelete(c) ==
    /\ pc[c] = "delete"
    /\ LET sid == loc[c].token.session_id
       IN  /\ session_store' = [s \in DOMAIN session_store \ {sid} |-> session_store[s]]
           /\ logged_out' = logged_out \cup {sid}
    /\ pc' = [pc EXCEPT ![c] = "idle"]
    /\ auth_last' = AuthOutcome("logout", "ok", loc[c].token)
    /\ completed' = completed + 1
    /\ UNCHANGED <<now, redis_client, redis_reachable, institutions, tenant_cache,
                   issued, first_fail, routeVars, loc,
                   rl_redis, counters, memory_store, heap, returned, dup_return,
                   rateVars, cbVars, shadowVars>>

LogoutNext ==
    \/ AuthenticateUser("e1", "pw1", NoDomain)
    \/ \E c \in Callers, token \in Presentable, route \in RequestRoutes :
           SessionGet(c, token, route)
    \/ \E c \in Callers : SessionSetex(c)
    \/ \E c \in Callers : SessionDelete(c)

SpecLogout == LogoutInit /\ [][LogoutNext]_vars

\* C27: once logout has deleted auth:session:<id>, the entry stays absent
\* under every interleaving of the logout with concurrent verify_token
\* calls on the same session id.
C27_NoSessionResurrection ==
    \A sid \in logged_out : sid \notin DOMAIN session_store

----------------------------------------------------------------------------
(* rate_limiter.check_rate_limit called with a subscription plan, before   *)
(* and after apply_advanced_throttling_to_rate_limiter has replaced it     *)

\* one request of client Observed is checked under the plan its caller
\* passes; integrated tells whether the method has been replaced
CheckWithPlan(subscription_plan, endpoint, integrated, sample, metrics_ok) ==
    /\ SumOver(requests, Endpoints) < MaxThRequests
    /\ requests' = [requests EXCEPT ![endpoint] = @ + 1]
    /\ \E call \in {IF integrated
                    THEN enhanced_check_rate_limit(RateStores, limits, circuit,
                             Observed, TenantOfClient(Observed), subscription_plan,
                             endpoint, sample, metrics_ok)
                    ELSE [limits |-> limits, circuit |-> circuit,
                          res |-> check_rate_limit(RateStores, limits, Observed,
                                                   subscription_plan, endpoint)]} :
           /\ limits' = call.limits
           /\ circuit' = call.circuit
           /\ counters' = call.res.st.counters
           /\ memory_store' = call.res.st.memory_store
           /\ heap' = call.res.st.heap
           /\ buckets' = call.res.st.buckets
           /\ rl_last' = CheckRecord(IF integrated THEN "enhanced_check_rate_limit"
                                     ELSE "check_rate_limit",
                                     Observed, endpoint, call.res)
    /\ cb_last' = [NoCircuitOp EXCEPT !.op = "check_rate_limit",
                                      !.plan = subscription_plan]
    /\ UNCHANGED <<now, authVars, rl_redis, pc, loc, returned, dup_return,
                   completed, rl_win, ticks, th_redis, metrics, endpoint_metrics,
                   probes, cb_steps, alone>>

PlanNext ==
    \/ \E plan \in DynPlans, e \in Endpoints, integrated \in BOOLEAN,
          m \in LoadSamples, ok \in BOOLEAN : CheckWithPlan(plan, e, integrated, m, ok)
    \/ \E r \in Recorded : RecordRequestMetrics(r[1], r[2])

SpecPlan == ThrottleInit /\ [][PlanNext]_vars

\* C28: a check made with a plan that is not a key of SUBSCRIPTION_LIMITS
\* raises nothing, returns a decision and applies the starter plan's hour
\* and day limits, whether or not advanced throttling has been integrated.
C28_UnknownPlanFallsBack ==
    (cb_last.op = "check_rate_limit" /\ cb_last.plan \notin DOMAIN SUBSCRIPTION_LIMITS)
    => /\ rl_last.raised = "none"
       /\ rl_last.allowed \in BOOLEAN
       /\ rl_last.hour_limit = SUBSCRIPTION_LIMITS.starter.requests_per_hour
       /\ rl_last.day_limit = SUBSCRIPTION_LIMITS.starter.requests_per_day

----------------------------------------------------------------------------
(* POST /auth/refresh                                                      *)

refresh_token_expire_days == 30

\* access tokens in existence at most, the refreshed ones included
MaxRefreshSessions == 4

\* _create_refresh_token: user, tenant, type and expiry, signed
_create_refresh_token(user_id, tenant_id) ==
    [user_id |-> user_id, tenant_id |-> tenant_id, type |-> "refresh",
     exp |-> now + refresh_token_expire_days * 86400, sig |-> jwt_secret]

\* what a caller can send as refresh_token: the refresh tokens that
\* authenticate_user returned with the access tokens, forgeries of them,
\* and access tokens
RefreshInputs ==
    LET made == {_create_refresh_token(t.user_id, t.tenant_id) : t \in issued}
    IN  made \cup {[t EXCEPT !.sig = "forged"] : t \in made} \cup issued

\* POST /auth/refresh: HTTPBearer, get_current_user and rate_limit(20), then
\* the handler: jwt.decode, the type test and create_access_token, whose
\* HTTPException passes through the handler's except clauses
Refresh(credentials, refresh_token) ==
    /\ http_req.stage = "idle"
    /\ Cardinality(issued) < MaxRefreshSessions
    /\ \E v \in {verify_token(credentials)},
          limited \in {rate_limit_dependency(auth_rl, credentials, 20)},
          refused \in NotAuthenticated :
          LET decoded == jwt_decode(refresh_token, jwt_secret)
              typed == "type" \in DOMAIN refresh_token /\ refresh_token.type = "refresh"
              created == create_access_token(v.cache, v.sessions,
                                             refresh_token.user_id,
                                             refresh_token.tenant_id)
              answer(status, detail) ==
                  [Response("refresh", status, detail, credentials) EXCEPT
                      !.correct = /\ decoded = "none" /\ typed
                                  /\ credentials \in issued
                                  /\ jwt_decode(credentials, jwt_secret) = "none"
                                  /\ created.raised = "none"]
          IN  IF credentials = NoToken
              THEN /\ http_last' = answer(refused, "Not authenticated")
                   /\ UNCHANGED <<session_store, tenant_cache, auth_rl, issued>>
              ELSE IF v.detail # "ok"
              THEN /\ http_last' = answer(401, v.detail)
                   /\ session_store' = v.sessions
                   /\ tenant_cache' = v.cache
                   /\ UNCHANGED <<auth_rl, issued>>
              ELSE IF limited.status = 429
              THEN /\ http_last' = [answer(429, "Rate limit exceeded") EXCEPT
                                       !.verified = TRUE, !.counted = TRUE]
                   /\ session_store' = v.sessions
                   /\ tenant_cache' = v.cache
                   /\ auth_rl' = limited.store
                   /\ UNCHANGED issued
              ELSE IF decoded # "none" \/ ~typed
              THEN /\ http_last' =
                        [answer(401, IF decoded = "ExpiredSignatureError"
                                     THEN "Refresh token expired"
                                     ELSE "Invalid refresh token") EXCEPT
                            !.verified = TRUE, !.counted = TRUE]
                   /\ session_store' = v.sessions
                   /\ tenant_cache' = v.cache
                   /\ auth_rl' = limited.store
                   /\ UNCHANGED issued
              ELSE /\ http_last' =
                        [answer(IF created.raised = "none" THEN 200
                                ELSE IF created.raised = "ConnectionError" THEN 500
                                ELSE 404, created.raised) EXCEPT
                            !.verified = TRUE, !.counted = TRUE,
                            !.access_token = created.token,
                            !.fresh = /\ created.raised = "none"
                                      /\ \A t \in issued :
                                            t.session_id # created.token.session_id]
                   /\ session_store' = created.sessions
                   /\ tenant_cache' = created.cache
                   /\ auth_rl' = limited.store
                   /\ issued' = IF created.raised = "none"
                                THEN issued \cup {created.token} ELSE issued
    /\ UNCHANGED <<nonAuthVars, now, redis_client, redis_reachable, institutions,
                   auth_last, logged_out, first_fail, http_req>>

RefreshNext ==
    \/ AuthenticateUser("e1", "pw1", NoDomain)
    \/ \E token \in issued : Logout(token)
    \/ \E c \in {NoToken} \cup issued, r \in RefreshInputs : Refresh(c, r)

SpecRefresh == AuthInit /\ [][RefreshNext]_vars

\* C30: POST /auth/refresh with a validly signed, unexpired token of type
\* 'refresh', sent with the access token its login returned and not
\* throttled, answers 200 with a new access token bound to a fresh session
\* id, whether or not logout has deleted the session of that login, and
\* does so again on every later call.
C30_RefreshIndependentOfSession ==
    (http_last.route = "refresh" /\ http_last.correct /\ http_last.status # 429)
    => /\ http_last.status = 200
       /\ http_last.access_token # NoToken
       /\ http_last.fresh

============================================================================
